---------------------------- MODULE Spec2Model ----------------------------
(***************************************************************************)
(* A model of dlabel: the ingress configuration tree (traefik_conf.py),    *)
(* the aggregator and the two proxy emitters (traefik.py), the compose     *)
(* reconstructor (compose.py) and the image-delta classifier (util.py).    *)
(*                                                                         *)
(* Python values are tagged records, so that a string, a number, a list    *)
(* and a mapping can be compared with each other.  A raised exception is   *)
(* the value Raise(<exception class>): an operator that receives one       *)
(* returns it, as the exception propagates through the Python call.        *)
(***************************************************************************)
EXTENDS Integers, Sequences, FiniteSets, TLC

(***************************************************************************)
(* Python values                                                           *)
(***************************************************************************)
PyNone == [kind |-> "none"]
PyStr(s) == [kind |-> "str", s |-> s]
PyInt(n) == [kind |-> "int", n |-> n]
PyBool(b) == [kind |-> "bool", b |-> b]
PyList(q) == [kind |-> "list", items |-> q]
PyDict(f) == [kind |-> "dict", m |-> f]
Raise(exc) == [kind |-> "error", exc |-> exc]

IsErr(v) == v.kind = "error"
IsDict(v) == v.kind = "dict"
IsList(v) == v.kind = "list"
EmptyDict == PyDict([k \in {} |-> PyNone])
Keys(d) == DOMAIN d.m
\* {key: value}
One(k, v) == PyDict([x \in {k} |-> v])
\* bool(v) of Python, for the values the model holds
Truthy(v) ==
    CASE v.kind = "none" -> FALSE
      [] v.kind = "str" -> v.s # ""
      [] v.kind = "int" -> v.n # 0
      [] v.kind = "bool" -> v.b
      [] v.kind = "list" -> v.items # <<>>
      [] v.kind = "dict" -> Keys(v) # {}
      [] OTHER -> TRUE

\* the first error among the items of a sequence, or PyNone
FirstErr(q) ==
    IF \E i \in DOMAIN q : IsErr(q[i])
    THEN q[CHOOSE i \in DOMAIN q : IsErr(q[i]) /\ \A j \in 1..(i - 1) : ~IsErr(q[j])]
    ELSE PyNone

(***************************************************************************)
(* String conversions.  TLA+ strings are atomic, so each conversion is     *)
(* the table of its results on the strings the model uses.                 *)
(***************************************************************************)
\* str.lower()
Lower(s) ==
    CASE s = "API" -> "api"
      [] s = "FOO" -> "foo"
      [] s = "Insecure" -> "insecure"
      [] s = "PROVIDERS" -> "providers"
      [] s = "FILE" -> "file"
      [] s = "FILENAME" -> "filename"
      [] s = "HTTP" -> "http"
      [] s = "Services" -> "services"
      [] s = "S" -> "s"
      [] s = "LoadBalancer" -> "loadbalancer"
      [] s = "Servers" -> "servers"
      [] s = "URL" -> "url"
      [] s = "Foo" -> "foo"
      [] s = "Bar" -> "bar"
      [] s = "Baz" -> "baz"
      [] s = "Qux" -> "qux"
      [] s = "TLS" -> "tls"
      [] s = "Certificates" -> "certificates"
      [] s = "CertFile" -> "certfile"
      [] s = "KeyFile" -> "keyfile"
      [] s = "Routers" -> "routers"
      [] s = "R" -> "r"
      [] s = "Rule" -> "rule"
      [] s = "Middlewares" -> "middlewares"
      [] OTHER -> s

\* str.split(",")
SplitComma(s) ==
    CASE s = "m1,m2" -> <<"m1", "m2">>
      [] s = "web,tls" -> <<"web", "tls">>
      [] s = "/a,/b" -> <<"/a", "/b">>
      [] OTHER -> <<s>>

\* int(s): the strings that parse as an integer
IntStrings == {"80", "8080", "9999", "1024"}
ParseInt(s) ==
    CASE s = "80" -> 80
      [] s = "8080" -> 8080
      [] s = "9999" -> 9999
      [] s = "1024" -> 1024
      [] OTHER -> 0

\* the strings pydantic reads as a bool (lax mode)
BoolTrueStrings == {"true", "1", "on", "yes", "t", "y"}
BoolFalseStrings == {"false", "0", "off", "no", "f", "n"}

(***************************************************************************)
(* dictknife.deepmerge(left, right), method "addtoset"                     *)
(***************************************************************************)
\* r = left[:]; for e in right: if e not in r: r.append(e)
RECURSIVE AddToSet(_, _)
AddToSet(r, right) ==
    IF right = <<>> THEN r
    ELSE LET e == Head(right)
         IN AddToSet(IF \E i \in DOMAIN r : r[i] = e THEN r ELSE Append(r, e),
                     Tail(right))

RECURSIVE DeepMergeExtend(_, _)
DeepMergeExtend(left, right) ==
    IF IsList(left)
    THEN IF IsList(right)
         THEN PyList(AddToSet(left.items, right.items))
         ELSE PyList(AddToSet(left.items, <<right>>))
    ELSE IF IsDict(left)
    THEN IF IsDict(right)
         THEN LET ks == Keys(left) \cup Keys(right)
                  r == [k \in ks |->
                          IF k \in Keys(right)
                          THEN IF k \in Keys(left)
                               THEN DeepMergeExtend(left.m[k], right.m[k])
                               ELSE right.m[k]
                          ELSE left.m[k]]
              IN IF \E k \in ks : IsErr(r[k])
                 THEN Raise("ValueError")
                 ELSE PyDict(r)
         ELSE IF right.kind = "none"
         THEN left
         ELSE Raise("ValueError")
    ELSE right

\* left = {}; for right in (a, b): if not right: continue; left = merge(left, right)
deepmerge(a, b) ==
    LET l1 == IF Truthy(a) THEN DeepMergeExtend(EmptyDict, a) ELSE EmptyDict
    IN IF IsErr(l1) THEN l1
       ELSE IF Truthy(b) THEN DeepMergeExtend(l1, b) ELSE l1


(***************************************************************************)
(* The schema of traefik_conf.py.  Every field is Optional with default    *)
(* None; a class allows extra fields.                                      *)
(***************************************************************************)
TAny == [t |-> "any"]
TStr == [t |-> "str"]
TInt == [t |-> "int"]
TBool == [t |-> "bool"]
\* list[str]
TListStr == [t |-> "liststr"]
\* list[dict]
TListDict == [t |-> "listdict"]
\* dict[str, Any] (and the bare dict)
TDictAny == [t |-> "dictany"]
\* dict[str, str]
TDictStr == [t |-> "dictstr"]
\* dict[str, dict]
TDictDict == [t |-> "dictdict"]
TModel(c) == [t |-> "model", cls |-> c]
\* dict[str, <class>]
TDictOf(c) == [t |-> "dictof", cls |-> c]
\* list[<class>]
TListOf(c) == [t |-> "listof", cls |-> c]
\* <type> | bool
TOrBool(x) == [t |-> "orbool", alt |-> x]

\* Annotated[list[str], BeforeValidator(csv_list)]
ListStr == [t |-> "csv"]

CertFile == [certfile |-> TStr, keyfile |-> TStr]

StoreCert == [defaultcertificate |-> TModel("CertFile"), defaultgeneratedcert |-> TDictAny]

TlsCert == [certfile |-> TStr, keyfile |-> TStr, stores |-> TListStr]

TlsConfig ==
    [certificates |-> TListOf("TlsCert"), stores |-> TDictOf("StoreCert"),
     options |-> TDictAny]

HttpRouter ==
    [entrypoints |-> ListStr, rule |-> TStr, rulesyntax |-> TStr,
     middlewares |-> ListStr, service |-> TStr, priority |-> TInt,
     tls |-> TOrBool(TDictAny)]

HttpLoadBalancerServer == [host |-> TStr, ipaddress |-> TStr, port |-> TInt]

HttpLoadBalancer ==
    [servers |-> TListDict, server |-> TModel("HttpLoadBalancerServer"),
     sticky |-> TDictAny, healthcheck |-> TDictStr, passhostheader |-> TBool,
     serverstransport |-> TStr, responseforwarding |-> TDictAny]

HttpService ==
    [loadbalancer |-> TModel("HttpLoadBalancer"), weighted |-> TDictAny,
     mirroring |-> TDictAny, failover |-> TDictAny]

CompressMiddleware ==
    [excludedcontenttypes |-> TListStr, includedcontenttypes |-> TListStr,
     minresponsebodybytes |-> TInt, defaultencoding |-> TStr,
     encodings |-> ListStr]

HeadersMiddleware ==
    [customrequestheaders |-> TDictStr, customresponseheaders |-> TDictStr]

StripprefixMiddleware == [prefixes |-> ListStr, forceslash |-> TBool]

StripprefixregexMiddleware == [regex |-> ListStr]

AddprefixMiddleware == [prefix |-> TStr]

HttpMiddleware ==
    [addprefix |-> TModel("AddprefixMiddleware"), basicauth |-> TDictAny,
     buffering |-> TDictAny, chain |-> TDictAny, circuitbreaker |-> TDictAny,
     compress |-> TOrBool(TModel("CompressMiddleware")),
     contenttype |-> TOrBool(TDictAny), digestauth |-> TDictAny,
     errors |-> TDictAny, forwardauth |-> TDictAny, grpcweb |-> TDictAny,
     headers |-> TModel("HeadersMiddleware"), ipwhitelist |-> TDictAny,
     ipallowlist |-> TDictAny, inflightreq |-> TDictAny,
     passtlsclientcert |-> TDictAny, ratelimit |-> TDictAny,
     redirectregex |-> TDictAny, redirectscheme |-> TDictAny,
     replacepath |-> TDictAny, replacepathregex |-> TDictAny,
     retry |-> TDictAny, stripprefix |-> TModel("StripprefixMiddleware"),
     stripprefixregex |-> TModel("StripprefixregexMiddleware")]

HttpConfig ==
    [middlewares |-> TDictOf("HttpMiddleware"), routers |-> TDictOf("HttpRouter"),
     services |-> TDictOf("HttpService"), serverstransports |-> TDictDict]

EntrypointHttp ==
    [redirections |-> TDictAny, encodequerysemicolons |-> TBool,
     middlewares |-> TListStr, tls |-> TDictAny]

EntrypointHttp2 == [maxconcurrentstreams |-> TInt]

EntrypointHttp3 == [advertisedport |-> TInt]

EntrypointConfig ==
    [address |-> TStr, http |-> TModel("EntrypointHttp"),
     http2 |-> TModel("EntrypointHttp2"),
     http3 |-> TOrBool(TModel("EntrypointHttp3")), udp |-> TDictAny,
     allowacmebypass |-> TBool, reuseport |-> TBool, asdefault |-> TBool,
     forwardedheaders |-> TDictAny, transport |-> TDictAny,
     proxyprotocol |-> TDictAny]

FileProvider == [filename |-> TStr, directory |-> TStr, watch |-> TBool]

ProviderConfig ==
    [docker |-> TOrBool(TDictAny), file |-> TModel("FileProvider"),
     swarm |-> TDictAny, kubernetescrd |-> TDictAny,
     kubernetesingress |-> TOrBool(TDictAny),
     kubernetesgateway |-> TOrBool(TDictAny),
     consulcatalog |-> TOrBool(TDictAny), nomad |-> TOrBool(TDictAny),
     ecs |-> TOrBool(TDictAny), consul |-> TDictAny, etcd |-> TDictAny,
     zookeeper |-> TDictAny, redis |-> TDictAny, http |-> TDictAny]

TraefikConfig ==
    [tls |-> TModel("TlsConfig"), http |-> TModel("HttpConfig"),
     tcp |-> TDictAny, udp |-> TDictAny,
     entrypoints |-> TDictOf("EntrypointConfig"),
     providers |-> TModel("ProviderConfig"), api |-> TDictAny,
     accesslog |-> TDictAny, experimental |-> TDictAny, log |-> TDictAny,
     metrics |-> TDictAny, tracing |-> TDictAny,
     certificatesresolvers |-> TDictAny, spiffe |-> TDictAny]

\* the declared fields of a class
Fields(cls) ==
    CASE cls = "TraefikConfig" -> TraefikConfig
      [] cls = "HttpConfig" -> HttpConfig
      [] cls = "HttpRouter" -> HttpRouter
      [] cls = "HttpService" -> HttpService
      [] cls = "HttpLoadBalancer" -> HttpLoadBalancer
      [] cls = "HttpLoadBalancerServer" -> HttpLoadBalancerServer
      [] cls = "HttpMiddleware" -> HttpMiddleware
      [] cls = "CompressMiddleware" -> CompressMiddleware
      [] cls = "HeadersMiddleware" -> HeadersMiddleware
      [] cls = "StripprefixMiddleware" -> StripprefixMiddleware
      [] cls = "StripprefixregexMiddleware" -> StripprefixregexMiddleware
      [] cls = "AddprefixMiddleware" -> AddprefixMiddleware
      [] cls = "ProviderConfig" -> ProviderConfig
      [] cls = "FileProvider" -> FileProvider
      [] cls = "EntrypointConfig" -> EntrypointConfig
      [] cls = "EntrypointHttp" -> EntrypointHttp
      [] cls = "EntrypointHttp2" -> EntrypointHttp2
      [] cls = "EntrypointHttp3" -> EntrypointHttp3
      [] cls = "TlsConfig" -> TlsConfig
      [] cls = "TlsCert" -> TlsCert
      [] cls = "StoreCert" -> StoreCert
      [] cls = "CertFile" -> CertFile

(***************************************************************************)
(* Model: the lowercasing validator, validation, serialization             *)
(***************************************************************************)
\* __lower__: the keys of a mapping and of the mappings nested in it, not of
\* the mappings held in a list.  (Two keys of one mapping that differ only
\* in case collide; the model's inputs hold none.)
RECURSIVE LowerKeys(_)
LowerKeys(value) ==
    IF IsDict(value)
    THEN PyDict([k2 \in {Lower(k) : k \in Keys(value)} |->
                    LowerKeys(value.m[CHOOSE k \in Keys(value) : Lower(k) = k2])])
    ELSE value

\* csv_list
csv_list(v) ==
    IF v.kind = "str"
    THEN LET parts == SplitComma(v.s)
         IN PyList([i \in DOMAIN parts |-> PyStr(parts[i])])
    ELSE v

AllItems(v, kind) == \A i \in DOMAIN v.items : v.items[i].kind = kind
AllValues(v, kind) == \A k \in Keys(v) : v.m[k].kind = kind

ValidationError == Raise("ValidationError")

\* bool, in pydantic's lax mode
ValidateBool(v) ==
    CASE v.kind = "bool" -> v
      [] v.kind = "str" /\ v.s \in BoolTrueStrings -> PyBool(TRUE)
      [] v.kind = "str" /\ v.s \in BoolFalseStrings -> PyBool(FALSE)
      [] v.kind = "int" /\ v.n \in {0, 1} -> PyBool(v.n = 1)
      [] OTHER -> ValidationError

\* int, in pydantic's lax mode
ValidateInt(v) ==
    CASE v.kind = "int" -> v
      [] v.kind = "str" /\ v.s \in IntStrings -> PyInt(ParseInt(v.s))
      [] v.kind = "bool" -> PyInt(IF v.b THEN 1 ELSE 0)
      [] OTHER -> ValidationError

RECURSIVE ValidateField(_, _)
RECURSIVE model_validate(_, _)
\* cls.model_validate(obj): an instance is the mapping of the fields and
\* extras that were given; a declared field given as None equals the unset one
model_validate(cls, obj) ==
    IF IsErr(obj) THEN obj
    ELSE IF ~IsDict(obj) THEN ValidationError
    ELSE LET low == LowerKeys(obj)
             F == Fields(cls)
             val == [k \in Keys(low) |->
                        IF k \in DOMAIN F
                        THEN ValidateField(F[k], low.m[k])
                        ELSE low.m[k]]
             kept == {k \in Keys(low) : ~(k \in DOMAIN F /\ val[k] = PyNone)}
         IN IF \E k \in Keys(low) : IsErr(val[k])
            THEN ValidationError
            ELSE PyDict([k \in kept |-> val[k]])

ValidateField(T, v) ==
    IF v = PyNone THEN PyNone
    ELSE CASE T.t = "any" -> v
      [] T.t = "str" -> IF v.kind = "str" THEN v ELSE ValidationError
      [] T.t = "int" -> ValidateInt(v)
      [] T.t = "bool" -> ValidateBool(v)
      [] T.t = "liststr" ->
            IF IsList(v) /\ AllItems(v, "str") THEN v ELSE ValidationError
      [] T.t = "csv" ->
            LET w == csv_list(v)
            IN IF IsList(w) /\ AllItems(w, "str") THEN w ELSE ValidationError
      [] T.t = "listdict" ->
            IF IsList(v) /\ AllItems(v, "dict") THEN v ELSE ValidationError
      [] T.t = "dictany" -> IF IsDict(v) THEN v ELSE ValidationError
      [] T.t = "dictstr" ->
            IF IsDict(v) /\ AllValues(v, "str") THEN v ELSE ValidationError
      [] T.t = "dictdict" ->
            IF IsDict(v) /\ AllValues(v, "dict") THEN v ELSE ValidationError
      [] T.t = "model" -> model_validate(T.cls, v)
      [] T.t = "dictof" ->
            IF ~IsDict(v) THEN ValidationError
            ELSE LET r == [k \in Keys(v) |-> model_validate(T.cls, v.m[k])]
                 IN IF \E k \in Keys(v) : IsErr(r[k])
                    THEN ValidationError ELSE PyDict(r)
      [] T.t = "listof" ->
            IF ~IsList(v) THEN ValidationError
            ELSE LET r == [i \in DOMAIN v.items |-> model_validate(T.cls, v.items[i])]
                 IN IF \E i \in DOMAIN r : IsErr(r[i])
                    THEN ValidationError ELSE PyList(r)
      [] T.t = "orbool" ->
            IF IsDict(v) THEN ValidateField(T.alt, v) ELSE ValidateBool(v)

RECURSIVE DumpField(_, _)
RECURSIVE model_dump(_, _)
\* a serialization that leaves out every falsy value, not only None
model_dump_falsy(cls, self) ==
    LET F == Fields(cls)
        kept == {k \in Keys(self) : Truthy(self.m[k])}
    IN PyDict([k \in kept |->
                  IF k \in DOMAIN F THEN DumpField(F[k], self.m[k]) ELSE self.m[k]])

\* self.model_dump(exclude_none=True, exclude_defaults=True, exclude_unset=True)
model_dump(cls, self) ==
    LET F == Fields(cls)
        kept == {k \in Keys(self) : self.m[k] # PyNone}
    IN PyDict([k \in kept |->
                  IF k \in DOMAIN F THEN DumpField(F[k], self.m[k]) ELSE self.m[k]])

DumpField(T, v) ==
    CASE T.t = "model" -> model_dump(T.cls, v)
      [] T.t = "dictof" -> PyDict([k \in Keys(v) |-> model_dump(T.cls, v.m[k])])
      [] T.t = "listof" -> PyList([i \in DOMAIN v.items |-> model_dump(T.cls, v.items[i])])
      [] T.t = "orbool" -> IF IsDict(v) THEN DumpField(T.alt, v) ELSE v
      [] OTHER -> v

\* Model.merge
merge(cls, self, other) ==
    IF IsErr(self) THEN self
    ELSE IF IsErr(other) THEN other
    ELSE IF other = PyNone THEN Raise("AttributeError")
    ELSE model_validate(cls, deepmerge(model_dump(cls, self), model_dump(cls, other)))

(***************************************************************************)
(* Model.setbyaddr.  A str address is the sequence of its parts with the   *)
(* "." between them, <<"api", ".", "insecure">>; a list address is a       *)
(* Python list, which has no split method.                                 *)
(***************************************************************************)
StrAddr(toks) == [kind |-> "str", toks |-> toks]
ListAddr(segs) == [kind |-> "list", segs |-> segs]

\* address.split("."): the parts between the dots ("" for an empty part)
RECURSIVE SplitDot(_)
SplitDot(toks) ==
    IF toks = <<>> THEN <<"">>
    ELSE IF Head(toks) = "." THEN <<"">> \o SplitDot(Tail(toks))
    ELSE IF Len(toks) = 1 THEN <<Head(toks)>>
    ELSE IF toks[2] = "." THEN <<Head(toks)>> \o SplitDot(SubSeq(toks, 3, Len(toks)))
    ELSE SplitDot(Tail(toks))

\* res = {}; tgt = res; for k in segs[:-1]: tgt[k] = {}; tgt = tgt[k]; tgt[last] = value
RECURSIVE Nest(_, _)
Nest(segs, value) ==
    IF Len(segs) = 1 THEN One(segs[1], value)
    ELSE One(Head(segs), Nest(Tail(segs), value))

\* a setbyaddr that returns the auxiliary tree without merging it
setbyaddr_nomerge(cls, self, address, value) ==
    IF IsErr(self) THEN self
    ELSE IF address.kind # "str" THEN Raise("AttributeError")
    ELSE LET segs == SplitDot(address.toks)
             leaf == IF value = PyStr("true") THEN EmptyDict ELSE value
         IN model_validate(cls, Nest(segs, leaf))

\* a setbyaddr that converts "false" to the boolean as it converts "true"
setbyaddr_false(cls, self, address, value) ==
    IF IsErr(self) THEN self
    ELSE IF address.kind # "str" THEN Raise("AttributeError")
    ELSE LET segs == SplitDot(address.toks)
             leaf == IF value = PyStr("true") THEN EmptyDict
                     ELSE IF value = PyStr("false") THEN PyBool(FALSE)
                     ELSE value
         IN merge(cls, self, model_validate(cls, Nest(segs, leaf)))

setbyaddr(cls, self, address, value) ==
    IF IsErr(self) THEN self
    ELSE IF address.kind # "str" THEN Raise("AttributeError")
    ELSE LET segs == SplitDot(address.toks)
             leaf == IF value = PyStr("true") THEN EmptyDict ELSE value
             res == Nest(segs, leaf)
         IN merge(cls, self, model_validate(cls, res))


(***************************************************************************)
(* traefik.py: the aggregation of a configuration tree from the running    *)
(* containers.  A text that the code takes apart (a label key, a command   *)
(* line argument, an environment entry, a file name) is the sequence of    *)
(* its parts, each separator ".", "=", "_" and a leading "--" being a part *)
(* of its own: <<"--", "api", ".", "insecure", "=", "true">>.              *)
(***************************************************************************)
\* the text of a sequence of parts
RECURSIVE Join(_)
Join(toks) == IF toks = <<>> THEN "" ELSE Head(toks) \o Join(Tail(toks))

\* the position of the first part equal to sep, 0 when there is none
FindPart(toks, sep) ==
    IF \E i \in DOMAIN toks : toks[i] = sep
    THEN CHOOSE i \in DOMAIN toks : toks[i] = sep /\ \A j \in 1..(i - 1) : toks[j] # sep
    ELSE 0

\* text.split(sep): the texts between the separators
RECURSIVE SplitOn(_, _)
SplitOn(toks, sep) ==
    LET i == FindPart(toks, sep)
    IN IF i = 0 THEN <<Join(toks)>>
       ELSE <<Join(SubSeq(toks, 1, i - 1))>> \o SplitOn(SubSeq(toks, i + 1, Len(toks)), sep)

\* text.startswith(prefix), the prefix given as parts
StartsWith(toks, prefix) ==
    /\ Len(toks) >= Len(prefix)
    /\ SubSeq(toks, 1, Len(prefix)) = prefix

\* text.endswith(suffix), the suffix given as parts
EndsWith(toks, suffix) ==
    /\ Len(toks) >= Len(suffix)
    /\ SubSeq(toks, Len(toks) - Len(suffix) + 1, Len(toks)) = suffix

\* int(v) of a str
int(v) == IF v \in IntStrings THEN PyInt(ParseInt(v)) ELSE Raise("ValueError")

\* the name that re.match(r"http\.services\.([^\.]+)\.loadbalancer\.server\.port", k1)
\* captures, "" when k1 does not match; the pattern has no end anchor
PortPrefixed == {"port", "ports", "portx"}
ServicePortName(k1) ==
    IF /\ Len(k1) >= 11
       /\ SubSeq(k1, 1, 4) = <<"http", ".", "services", ".">>
       /\ k1[5] \notin {".", ""}
       /\ SubSeq(k1, 6, 10) = <<".", "loadbalancer", ".", "server", ".">>
       /\ k1[11] \in PortPrefixed
    THEN k1[5]
    ELSE ""

\* TraefikConfig()
NewConfig(cls) == model_validate(cls, EmptyDict)

\* res.setbyaddr(k1.split("."), int(v)), after the two companion entries
SetPort(r2, k1, port) ==
    IF IsErr(r2) THEN r2
    ELSE IF IsErr(port) THEN port
    ELSE setbyaddr("TraefikConfig", r2, ListAddr(SplitOn(k1, ".")), port)

\* the branch of traefik_label_config for a service port label
ServicePort(res, name, k1, v, host, ipaddr) ==
    SetPort(setbyaddr("TraefikConfig",
                      setbyaddr("TraefikConfig", res,
                                ListAddr(<<"http", "services", name, "loadbalancer",
                                           "server", "host">>), host),
                      ListAddr(<<"http", "services", name, "loadbalancer", "server",
                                 "ipaddress">>), ipaddr),
            k1, int(v))

\* the body of the loop for a label whose key starts with "traefik."
TraefikLabel(res, k1, v, host, ipaddr) ==
    IF ServicePortName(k1) # ""
    THEN ServicePort(res, ServicePortName(k1), k1, v, host, ipaddr)
    ELSE setbyaddr("TraefikConfig", res, ListAddr(SplitOn(k1, ".")), PyStr(v))

\* one iteration of the loop of traefik_label_config over labels.items()
LabelStep(res, label, host, ipaddr) ==
    IF label.k = <<"traefik", ".", "enable">> THEN res
    ELSE IF ~StartsWith(label.k, <<"traefik", ".">>) THEN res
    ELSE TraefikLabel(res, SubSeq(label.k, 3, Len(label.k)), label.v, host, ipaddr)

RECURSIVE LabelLoop(_, _, _, _)
LabelLoop(res, labels, host, ipaddr) ==
    IF labels = <<>> \/ IsErr(res) THEN res
    ELSE LabelLoop(LabelStep(res, Head(labels), host, ipaddr), Tail(labels), host, ipaddr)

traefik_label_config(labels, host, ipaddr) ==
    LabelLoop(NewConfig("TraefikConfig"), labels, host, ipaddr)

\* k, v = text.split("=", 1)
BeforeEq(toks) == SubSeq(toks, 1, FindPart(toks, "=") - 1)
AfterEq(toks) == Join(SubSeq(toks, FindPart(toks, "=") + 1, Len(toks)))

\* the loop of traefik_container_config over ctn.attrs["Args"]
ArgStep(from_args_, arg) ==
    IF StartsWith(arg, <<"--">>) /\ FindPart(arg, "=") # 0
    THEN LET k == BeforeEq(arg)
         IN setbyaddr("TraefikConfig", from_args_,
                      ListAddr(SplitOn(SubSeq(k, 2, Len(k)), ".")), PyStr(AfterEq(arg)))
    ELSE from_args_

RECURSIVE ArgLoop(_, _)
ArgLoop(from_args_, args) ==
    IF args = <<>> \/ IsErr(from_args_) THEN from_args_
    ELSE ArgLoop(ArgStep(from_args_, Head(args)), Tail(args))

\* the loop of traefik_container_config over ctn.attrs["Config"]["Env"]
EnvStep(from_envs_, env) ==
    IF StartsWith(env, <<"TRAEFIK", "_">>) /\ FindPart(env, "=") # 0
    THEN LET rest == SubSeq(env, 3, Len(env))
         IN setbyaddr("TraefikConfig", from_envs_,
                      ListAddr(SplitOn(BeforeEq(rest), "_")), PyStr(AfterEq(rest)))
    ELSE from_envs_

RECURSIVE EnvLoop(_, _)
EnvLoop(from_envs_, envs) ==
    IF envs = <<>> \/ IsErr(from_envs_) THEN from_envs_
    ELSE EnvLoop(EnvStep(from_envs_, Head(envs)), Tail(envs))

\* a field of a model instance, None when it is not set
Attr(self, name) == IF name \in Keys(self) THEN self.m[name] ELSE PyNone

\* the loop of traefik_container_config over download_files(ctn, to_load);
\* a file is its name and the document its text holds.  toml.loads is
\* given bytes, which it refuses
FileStep(from_conf_, file) ==
    IF EndsWith(file.fn, <<".", "yml">>) \/ EndsWith(file.fn, <<".", "yaml">>)
    THEN merge("TraefikConfig", from_conf_, model_validate("TraefikConfig", file.doc))
    ELSE IF EndsWith(file.fn, <<".", "toml">>) THEN Raise("TypeError")
    ELSE from_conf_

RECURSIVE FileLoop(_, _)
FileLoop(from_conf_, files) ==
    IF files = <<>> \/ IsErr(from_conf_) THEN from_conf_
    ELSE FileLoop(FileStep(from_conf_, Head(files)), Tail(files))

\* a tuple of Python
PyTuple(q) == [kind |-> "tuple", items |-> q]

\* provider = ProviderConfig().merge(from_args.providers).merge(from_envs.providers)
ProviderOf(args, envs) ==
    merge("ProviderConfig",
          merge("ProviderConfig", NewConfig("ProviderConfig"), Attr(args, "providers")),
          Attr(envs, "providers"))

\* provider.file.filename or provider.file.directory
ToLoad(file) ==
    IF Truthy(Attr(file, "filename")) THEN Attr(file, "filename")
    ELSE Attr(file, "directory")

\* from_conf, given provider.file
LoadFile(ctn, file) ==
    IF file # PyNone /\ Truthy(ToLoad(file))
    THEN FileLoop(NewConfig("TraefikConfig"), ctn.files)
    ELSE NewConfig("TraefikConfig")

LoadConf(ctn, provider) ==
    IF IsErr(provider) THEN provider ELSE LoadFile(ctn, Attr(provider, "file"))

\* return from_args, from_envs, from_conf
ConfigTuple(args, envs, conf) ==
    IF IsErr(conf) THEN conf ELSE PyTuple(<<args, envs, conf>>)

WithEnvs(ctn, args, envs) ==
    IF IsErr(envs) THEN envs
    ELSE ConfigTuple(args, envs, LoadConf(ctn, ProviderOf(args, envs)))

WithArgs(ctn, args) ==
    IF IsErr(args) THEN args
    ELSE WithEnvs(ctn, args, EnvLoop(NewConfig("TraefikConfig"), ctn.envs))

\* traefik_container_config(ctn): (from_args, from_envs, from_conf), or the
\* exception it raises
traefik_container_config(ctn) ==
    WithArgs(ctn, ArgLoop(NewConfig("TraefikConfig"), ctn.args))

(***************************************************************************)
(* State                                                                   *)
(***************************************************************************)
(***************************************************************************)
(* traefik.py: the nginx and Apache emitters.  A text the emitters take    *)
(* apart is the sequence of its parts, each character the code looks at    *)
(* ("|", "(", ")", "@", a space, a newline, the characters re.escape       *)
(* escapes) being a part of its own.  A TLA+ string holds no backquote:    *)
(* the model writes the backquote of a rule as an apostrophe.              *)
(***************************************************************************)
Backquote == "'"

\* the parts of a string; a string without such a character is one part
Parts(s) ==
    CASE s = "PathPrefix('/a')" -> <<"PathPrefix", "(", "'", "/a", "'", ")">>
      [] s = "Path('/a.b')" -> <<"Path", "(", "'", "/a", ".", "b", "'", ")">>
      [] s = "PathPrefix('/a')||Path('/b')" -> <<"PathPrefix", "(", "'", "/a", "'", ")", "|", "|", "Path", "(", "'", "/b", "'", ")">>
      [] s = "Path('/b')||PathPrefix('/a')||PathPrefix('/c')" -> <<"Path", "(", "'", "/b", "'", ")", "|", "|", "PathPrefix", "(", "'", "/a", "'", ")", "|", "|", "PathPrefix", "(", "'", "/c", "'", ")">>
      [] s = "Host('x')" -> <<"Host", "(", "'", "x", "'", ")">>
      [] s = "PathPrefix('/a') || PathPrefix('/c')" -> <<"PathPrefix", "(", "'", "/a", "'", ")", " ", "|", "|", " ", "PathPrefix", "(", "'", "/c", "'", ")">>
      [] s = "PathPrefix('/a')||Host('x')" -> <<"PathPrefix", "(", "'", "/a", "'", ")", "|", "|", "Host", "(", "'", "x", "'", ")">>
      [] s = "Host('x')||PathPrefix('/a')" -> <<"Host", "(", "'", "x", "'", ")", "|", "|", "PathPrefix", "(", "'", "/a", "'", ")">>
      [] s = "PathPrefix('/a')\n" -> <<"PathPrefix", "(", "'", "/a", "'", ")", "\n">>
      [] s = "/a.b" -> <<"/a", ".", "b">>
      [] s = "/a-b" -> <<"/a", "-", "b">>
      [] s = "strip@file" -> <<"strip", "@", "file">>
      [] s = "add@docker" -> <<"add", "@", "docker">>
      [] OTHER -> IF s = "" THEN <<>> ELSE <<s>>

\* sep.join(texts)
RECURSIVE JoinWith(_, _)
JoinWith(texts, sep) ==
    IF texts = <<>> THEN ""
    ELSE IF Len(texts) = 1 THEN texts[1]
    ELSE texts[1] \o sep \o JoinWith(Tail(texts), sep)

\* the str items of a list
Strs(list) == [i \in DOMAIN list.items |-> list.items[i].s]

\* the characters re.escape writes a backslash before
SpecialChars ==
    {"(", ")", "[", "]", "{", "}", "?", "*", "+", "-", "|", "^", "$", "\\",
     ".", "&", "~", "#", " ", "\t", "\n", "\r", "\f"}

\* re.escape(s)
re_escape(s) ==
    Join([i \in DOMAIN Parts(s) |->
            IF Parts(s)[i] \in SpecialChars THEN "\\" \o Parts(s)[i] ELSE Parts(s)[i]])

\* str(v) inside an f-string
Str(v) ==
    CASE v = PyNone -> "None"
      [] v.kind = "int" -> CHOOSE s \in IntStrings : ParseInt(s) = v.n
      [] OTHER -> v.s

\* bool(v) of a field that holds a Model instance, a bool or None
Bool(v) ==
    CASE v = PyNone -> FALSE
      [] v.kind = "bool" -> v.b
      [] OTHER -> TRUE

\* x or default
Or(x, default) == IF Truthy(x) THEN x ELSE default

\* {"directive": name, "args": args}
Directive(name, args) ==
    PyDict(("directive" :> PyStr(name)) @@ ("args" :> PyList(args)))

\* middleware_compress
middleware_compress(mdl) ==
    LET compress == Attr(mdl, "compress")
    IN IF ~Bool(compress) THEN <<>>
       ELSE <<Directive("gzip", <<PyStr("on")>>)>>
            \o (IF compress.kind # "bool" /\ Truthy(Attr(compress, "includedcontenttypes"))
                THEN <<Directive("gzip_types", Attr(compress, "includedcontenttypes").items)>>
                ELSE <<>>)
            \o (IF compress.kind # "bool" /\ Truthy(Attr(compress, "minresponsebodybytes"))
                THEN <<Directive("gzip_min_length", <<Attr(compress, "minresponsebodybytes")>>)>>
                ELSE <<>>)

\* middleware_compress_apache; a line is the sequence of the parts of its
\* f-string
middleware_compress_apache(mdl) ==
    LET compress == Attr(mdl, "compress")
    IN IF ~Bool(compress) THEN <<>>
       ELSE IF compress.kind # "bool" /\ Truthy(Attr(compress, "includedcontenttypes"))
       THEN << <<"AddOutputFilterByType DEFLATE ",
                 JoinWith(Strs(Attr(compress, "includedcontenttypes")), " ")>> >>
       ELSE << <<"SetOutputFilter DEFLATE">> >>

\* the header names of the model, in the order in which its inputs write them
HeaderNames == <<"x-req", "x-res", "x-trace">>

\* d.items(): the (key, value) pairs in insertion order
Items(d) ==
    LET ks == SelectSeq(HeaderNames, LAMBDA k : k \in Keys(d))
    IN [i \in DOMAIN ks |-> <<ks[i], d.m[ks[i]].s>>]

\* one directive for each header of d, when d holds headers
HeaderDirectives(name, d) ==
    IF ~Truthy(d) THEN <<>>
    ELSE [i \in DOMAIN Items(d) |->
            Directive(name, <<PyStr(Items(d)[i][1]), PyStr(Items(d)[i][2])>>)]

\* middleware_headers
middleware_headers(mdl) ==
    IF Attr(mdl, "headers") = PyNone THEN <<>>
    ELSE HeaderDirectives("proxy_set_header", Attr(Attr(mdl, "headers"), "customrequestheaders"))
         \o HeaderDirectives("add_header", Attr(Attr(mdl, "headers"), "customresponseheaders"))

\* one line for each header of d, when d holds headers
HeaderLines(name, d) ==
    IF ~Truthy(d) THEN <<>>
    ELSE [i \in DOMAIN Items(d) |-> <<name, Items(d)[i][1], " ", Items(d)[i][2]>>]

\* middleware_headers_apache
middleware_headers_apache(mdl) ==
    IF Attr(mdl, "headers") = PyNone THEN <<>>
    ELSE HeaderLines("RequestHeader append ", Attr(Attr(mdl, "headers"), "customrequestheaders"))
         \o HeaderLines("Header append ", Attr(Attr(mdl, "headers"), "customresponseheaders"))

\* what one middleware adds to del_prefix: its stripprefix prefixes, escaped,
\* then its stripprefixregex expressions
Stripped(mdl) ==
    (IF Attr(mdl, "stripprefix") # PyNone /\ Truthy(Attr(Attr(mdl, "stripprefix"), "prefixes"))
     THEN [i \in DOMAIN Attr(Attr(mdl, "stripprefix"), "prefixes").items |->
             re_escape(Attr(Attr(mdl, "stripprefix"), "prefixes").items[i].s)]
     ELSE <<>>)
    \o (IF Attr(mdl, "stripprefixregex") # PyNone /\ Truthy(Attr(Attr(mdl, "stripprefixregex"), "regex"))
        THEN Strs(Attr(Attr(mdl, "stripprefixregex"), "regex"))
        ELSE <<>>)

\* res, del_prefix and add_prefix before the loop over the middlewares
LoopStart == [res |-> <<>>, del_prefix |-> <<>>, add_prefix |-> "/"]

\* a turn of the loop that leaves add_prefix at the first prefix it was given
LoopTurn_first(acc, mdl, directives) ==
    [res |-> acc.res \o directives,
     del_prefix |-> acc.del_prefix \o Stripped(mdl),
     add_prefix |->
        IF /\ acc.add_prefix = "/"
           /\ Attr(mdl, "addprefix") # PyNone
           /\ Truthy(Attr(Attr(mdl, "addprefix"), "prefix"))
        THEN Attr(Attr(mdl, "addprefix"), "prefix").s
        ELSE acc.add_prefix]

\* one turn of the loop of middleware2nginx and of middleware2apache, given
\* the directives of the middleware in the dialect
LoopTurn(acc, mdl, directives) ==
    [res |-> acc.res \o directives,
     del_prefix |-> acc.del_prefix \o Stripped(mdl),
     add_prefix |->
        IF Attr(mdl, "addprefix") # PyNone /\ Truthy(Attr(Attr(mdl, "addprefix"), "prefix"))
        THEN Attr(Attr(mdl, "addprefix"), "prefix").s
        ELSE acc.add_prefix]

RECURSIVE NginxLoop(_, _)
NginxLoop(acc, mdlconf) ==
    IF mdlconf = <<>> THEN acc
    ELSE NginxLoop(LoopTurn(acc, Head(mdlconf),
                            middleware_compress(Head(mdlconf))
                                \o middleware_headers(Head(mdlconf))),
                   Tail(mdlconf))

\* the list middleware2nginx returns after its loop
NginxRewrite(acc) ==
    IF acc.del_prefix # <<>> \/ acc.add_prefix # "/"
    THEN Append(acc.res,
                Directive("rewrite", <<PyStr(JoinWith(acc.del_prefix, "|") \o "(.*)"),
                                       PyStr(acc.add_prefix \o "$1"),
                                       PyStr("break")>>))
    ELSE acc.res

\* middleware2nginx
middleware2nginx(mdlconf) == NginxRewrite(NginxLoop(LoopStart, mdlconf))

RECURSIVE ApacheLoop(_, _)
ApacheLoop(acc, mdlconf) ==
    IF mdlconf = <<>> THEN acc
    ELSE ApacheLoop(LoopTurn(acc, Head(mdlconf),
                             middleware_compress_apache(Head(mdlconf))
                                 \o middleware_headers_apache(Head(mdlconf))),
                    Tail(mdlconf))

\* the list middleware2apache returns after its loop
ApacheRewrite(acc) ==
    IF acc.del_prefix # <<>> \/ acc.add_prefix # "/"
    THEN acc.res \o << <<"RewriteEngine On">>,
                       <<"RewriteRule ", JoinWith(acc.del_prefix, "|") \o "(.*)",
                         " ", acc.add_prefix \o "$1">> >>
    ELSE acc.res

\* middleware2apache
middleware2apache(mdlconf) == ApacheRewrite(ApacheLoop(LoopStart, mdlconf))

\* the position of the first "||" of a text, 0 when there is none
FindOr(text) ==
    IF \E i \in 1..(Len(text) - 1) : text[i] = "|" /\ text[i + 1] = "|"
    THEN CHOOSE i \in 1..(Len(text) - 1) :
            /\ text[i] = "|" /\ text[i + 1] = "|"
            /\ \A j \in 1..(i - 1) : ~(text[j] = "|" /\ text[j + 1] = "|")
    ELSE 0

\* rule.split("||"), each alternative a sequence of parts
RECURSIVE SplitOr(_)
SplitOr(text) ==
    IF FindOr(text) = 0 THEN <<text>>
    ELSE <<SubSeq(text, 1, FindOr(text) - 1)>>
         \o SplitOr(SubSeq(text, FindOr(text) + 2, Len(text)))

\* "$" of a pattern: the end of the text, or the place before its last newline
BeforeNewline(text) ==
    IF text # <<>> /\ text[Len(text)] = "\n" THEN SubSeq(text, 1, Len(text) - 1) ELSE text

\* the group of re.match(r"^<name>\(`([^`]+)`\)$", rule), PyNone when the
\* rule does not match
Group(name, rule) ==
    IF /\ Len(BeforeNewline(rule)) >= 6
       /\ SubSeq(BeforeNewline(rule), 1, 3) = <<name, "(", Backquote>>
       /\ SubSeq(BeforeNewline(rule), Len(BeforeNewline(rule)) - 1, Len(BeforeNewline(rule)))
            = <<Backquote, ")">>
       /\ \A i \in 4..(Len(BeforeNewline(rule)) - 2) : BeforeNewline(rule)[i] # Backquote
    THEN PyStr(Join(SubSeq(BeforeNewline(rule), 4, Len(BeforeNewline(rule)) - 2)))
    ELSE PyNone

\* rule2locationkey, of an alternative given as its parts
rule2locationkey(rule) ==
    IF Group("PathPrefix", rule) # PyNone THEN PyList(<<Group("PathPrefix", rule)>>)
    ELSE IF Group("Path", rule) # PyNone THEN PyList(<<PyStr("="), Group("Path", rule)>>)
    ELSE PyList(<<>>)

\* get_backend: an item of servers is a dict, which has no attribute url
get_backend(svc_, ipaddr) ==
    LET loadbalancer == Attr(svc_, "loadbalancer")
    IN IF loadbalancer = PyNone THEN PyList(<<>>)
       ELSE IF Truthy(Attr(loadbalancer, "servers")) THEN Raise("AttributeError")
       ELSE IF /\ Attr(loadbalancer, "server") # PyNone
               /\ Truthy(Attr(Attr(loadbalancer, "server"), "port"))
       THEN PyList(<<PyStr(Str(Attr(Attr(loadbalancer, "server"),
                                    IF ipaddr THEN "ipaddress" ELSE "host"))
                           \o ":" \o Str(Attr(Attr(loadbalancer, "server"), "port")))>>)
       ELSE PyList(<<>>)

\* " " * n
RECURSIVE Spaces(_)
Spaces(n) == IF n = 0 THEN "" ELSE " " \o Spaces(n - 1)

\* len(line) - len(line.lstrip()): the white space a line starts with is its
\* first part
Indent(line) ==
    IF line # <<>> /\ line[1] = Spaces(Len(line[1])) THEN Len(line[1]) ELSE 0

\* base_conf.index("</VirtualHost>"), -1 when no line is the closing tag
IndexOfClosing(base_conf) ==
    IF \E i \in DOMAIN base_conf : Join(base_conf[i]) = "</VirtualHost>"
    THEN (CHOOSE i \in DOMAIN base_conf :
            /\ Join(base_conf[i]) = "</VirtualHost>"
            /\ \A j \in 1..(i - 1) : Join(base_conf[j]) # "</VirtualHost>") - 1
    ELSE -1

\* base_conf[insert_to - 1]: before the first line comes the last
LineBefore(base_conf, insert_to) ==
    IF insert_to = 0 THEN base_conf[Len(base_conf)] ELSE base_conf[insert_to]

\* the lines apache_insert2vf returns, the location lines going in at
\* insert_to with the given indent
Inserted(base_conf, location_conf, insert_to, indent) ==
    SubSeq(base_conf, 1, insert_to)
    \o << <<>> >>
    \o [i \in DOMAIN location_conf |-> <<Spaces(indent)>> \o location_conf[i]]
    \o << <<>> >>
    \o SubSeq(base_conf, insert_to + 1, Len(base_conf))

\* apache_insert2vf
apache_insert2vf(base_conf, location_conf) ==
    IF IndexOfClosing(base_conf) >= 0
    THEN Inserted(base_conf, location_conf, IndexOfClosing(base_conf),
                  Indent(LineBefore(base_conf, IndexOfClosing(base_conf))))
    ELSE Inserted(base_conf, location_conf, Len(base_conf), 0)

VARIABLES
    \* a call of Model.merge, Model.setbyaddr or model_validate(model_dump())
    \* and what it returned
    treeCall, treeOut,
    \* traefik_dump: the containers the client lists, the number of them the
    \* loop has visited, the four source trees, and what the call returned
    containers, visited, from_conf, from_args, from_envs, from_label, dumpOut,
    \* compose: its arguments, the attrs of the containers the client lists,
    \* the number of them the loop has visited, the service of the last
    \* iteration, the services and the volumes so far, and what the call
    \* returned
    composeArgs, attrs, composed, svc, svcs, vols, composeOut,
    \* the networks so far, the paths that copy_files has created, and the
    \* document written to compose.yml
    nets, copied, yml,
    \* get_diff: the container (its files, its diff) and the ignore patterns,
    \* the number of diff entries the loop has visited, the four collections,
    \* and what the call returned
    diffCall, diffSeen, deleted, added, modified, link, diffOut,
    \* dockerfile.py, get_dockerfile after its call of get_diff: its other
    \* arguments, the lines of the Dockerfile (res), the items it has yielded,
    \* and the yield the generator is suspended at (genAt)
    dockerCall, dockerfile, items, genAt,
    \* traefik2nginx and traefik2apache: the arguments of the call, the
    \* validated tree, the routers the loop has yet to visit, the server
    \* block of the nginx configuration, the lines of the Apache locations,
    \* and what the call wrote or raised
    emitCall, traefik_config, todo, nginx_target, apache_res, emitOut,
    \* api.py, the generator arc of DockerfileRoute.get_archive: the items
    \* that get_dockerfile yields (name and size), the number of them the loop
    \* has taken, the buffer ofp, the offset tf writes at, the position osk,
    \* the chunks yielded, where the generator stands (arcAt), and whether it
    \* has finished
    arcItems, arcSeen, ofp, tf, osk, chunks, arcOut, arcAt

TreeVars == <<treeCall, treeOut>>
DumpVars == <<containers, visited, from_conf, from_args, from_envs, from_label, dumpOut>>
ComposeVars == <<composeArgs, attrs, composed, svc, svcs, vols, composeOut, nets, copied, yml>>
DiffVars == <<diffCall, diffSeen, deleted, added, modified, link, diffOut, dockerCall,
              dockerfile, items, genAt>>
EmitVars == <<emitCall, traefik_config, todo, nginx_target, apache_res, emitOut>>
ArcVars == <<arcItems, arcSeen, ofp, tf, osk, chunks, arcOut, arcAt>>
vars == <<TreeVars, DumpVars, ComposeVars, DiffVars, EmitVars, ArcVars>>

Pending == [kind |-> "pending"]
Idle == [kind |-> "idle"]
Absent == [kind |-> "absent"]

\* the mapping of the keys of f whose value is given
MkDict(f) == PyDict([k \in {x \in DOMAIN f : f[x] # Absent} |-> f[k]])

(***************************************************************************)
(* Inputs of the tree operations: documents as a provider file or a label  *)
(* set gives them                                                          *)
(***************************************************************************)
ApiParts ==
    {Absent, EmptyDict, One("x", PyStr("s")), One("x", PyStr("t")),
     One("x", PyList(<<PyStr("s")>>)), One("x", PyList(<<PyStr("t"), PyStr("s")>>)),
     One("x", One("y", PyStr("s")))}

RouterParts ==
    {Absent,
     One("routers", One("r", One("middlewares", PyStr("m1,m2")))),
     One("routers", One("r", One("rule", PyStr("s"))))}

ExtraParts == {Absent, PyNone, PyStr("s")}

MergeDocs ==
    {MkDict([api |-> p, http |-> h]) : p \in ApiParts, h \in RouterParts}

RoundTripDocs ==
    {MkDict([api |-> p, http |-> h, foo |-> e]) :
        p \in ApiParts, h \in RouterParts, e \in ExtraParts}
    \cup {One("http", One("routers", One("r", MkDict([rule |-> PyNone, bar |-> e])))) :
            e \in ExtraParts}

SetDocs ==
    {EmptyDict, One("api", One("x", One("y", PyStr("s")))), One("foo", PyStr("u")),
     One("api", One("x", PyList(<<PyStr("s")>>))),
     One("http", One("routers", One("r", One("rule", PyStr("s")))))}

SetOps ==
    {[addr |-> StrAddr(<<"api">>), value |-> PyStr("true")],
     [addr |-> StrAddr(<<"api", ".", "insecure">>), value |-> PyStr("true")],
     [addr |-> StrAddr(<<"api", ".", "x">>), value |-> PyStr("s")],
     [addr |-> StrAddr(<<"api", ".", "x">>), value |-> PyStr("true")],
     [addr |-> StrAddr(<<"foo">>), value |-> PyStr("true")],
     [addr |-> StrAddr(<<"API", ".", "x">>), value |-> PyStr("t")],
     [addr |-> StrAddr(<<"foo">>), value |-> PyStr("s")],
     [addr |-> StrAddr(<<"FOO">>), value |-> PyStr("t")],
     [addr |-> StrAddr(<<"http", ".", "routers", ".", "r", ".", "rule">>), value |-> PyStr("true")],
     [addr |-> StrAddr(<<"http", ".", "routers", ".", "r", ".", "middlewares">>), value |-> PyStr("m1,m2")],
     [addr |-> StrAddr(<<"providers", ".", "file", ".", "filename">>), value |-> PyStr("false")],
     [addr |-> StrAddr(<<"providers", ".", "file", ".", "watch">>), value |-> PyStr("false")],
     [addr |-> StrAddr(<<"providers", ".", "file", ".", "watch">>), value |-> PyStr("true")],
     [addr |-> StrAddr(<<"providers", ".", "docker">>), value |-> PyStr("false")],
     [addr |-> StrAddr(<<"providers", ".", "docker", ".", "exposedbydefault">>), value |-> PyStr("false")]}

Instances(docs) == {model_validate("TraefikConfig", d) : d \in docs}

MergeCalls ==
    [fn : {"merge"}, a : Instances(MergeDocs), b : Instances(MergeDocs),
     c : Instances(MergeDocs)]

SetCalls == [fn : {"setbyaddr"}, t : Instances(SetDocs), op1 : SetOps, op2 : SetOps]

RoundTripCalls == [fn : {"roundtrip"}, t : Instances(RoundTripDocs)]

\* the value with every key of every mapping in lower case, the mappings
\* in lists too
RECURSIVE AllLower(_)
AllLower(value) ==
    IF IsDict(value)
    THEN PyDict([k2 \in {Lower(k) : k \in Keys(value)} |->
                    AllLower(value.m[CHOOSE k \in Keys(value) : Lower(k) = k2])])
    ELSE IF IsList(value)
    THEN PyList([i \in DOMAIN value.items |-> AllLower(value.items[i])])
    ELSE value

\* input trees with keys in upper case: in typed models, in a list of typed
\* models, in a list of free mappings, in extra fields
ValidateDocs ==
    {One(http, One(svcs_, One("S", One("LoadBalancer", One(servers_, PyList(<<One(url, PyStr("http://h:80"))>>)))))) :
        http \in {"HTTP", "http"}, svcs_ \in {"Services", "services"},
        servers_ \in {"Servers", "servers"}, url \in {"URL", "url"}}
    \cup {One(api, PyDict((foo :> PyList(<<One(bar, PyInt(1))>>)) @@ ("Baz" :> One(qux, PyInt(1))))) :
            api \in {"API", "api"}, foo \in {"Foo", "foo"}, bar \in {"Bar", "bar"},
            qux \in {"Qux", "qux"}}
    \cup {One("TLS", One(certs, PyList(<<PyDict((cert :> PyStr("a")) @@ ("KeyFile" :> PyStr("b")))>>))) :
            certs \in {"Certificates", "certificates"}, cert \in {"CertFile", "certfile"}}
    \cup {One(foo, PyList(<<One(bar, One(baz, PyInt(1)))>>)) :
            foo \in {"Foo", "foo"}, bar \in {"Bar", "bar"}, baz \in {"Baz", "baz"}}
    \cup {One("HTTP", One("Routers", One("R",
                PyDict((rule :> PyStr("x")) @@ ("Middlewares" :> PyList(<<PyStr("Foo")>>))
                       @@ (bar :> PyList(<<One(baz, PyInt(1))>>)))))) :
            rule \in {"Rule", "rule"}, bar \in {"Bar", "bar"}, baz \in {"Baz", "baz"}}

\* a tree, and the tree that differs from it in the case of its keys only
ValidateCalls == {[fn |-> "validate", t |-> t, u |-> AllLower(t)] : t \in ValidateDocs}

TreeInit ==
    /\ treeCall \in MergeCalls \cup SetCalls \cup RoundTripCalls \cup ValidateCalls
    /\ treeOut = Pending

TreeIdle ==
    /\ treeCall = Idle
    /\ treeOut = Idle

\* a.merge(b).merge(c) and a.merge(b.merge(c))
ApplyMerge ==
    /\ treeCall.fn = "merge"
    /\ treeOut = Pending
    /\ treeOut' =
          [ab_c |-> merge("TraefikConfig",
                          merge("TraefikConfig", treeCall.a, treeCall.b), treeCall.c),
           a_bc |-> merge("TraefikConfig", treeCall.a,
                          merge("TraefikConfig", treeCall.b, treeCall.c))]
    /\ UNCHANGED treeCall

\* t.setbyaddr(op1).setbyaddr(op2) and t.setbyaddr(op2).setbyaddr(op1)
ApplySetByAddr ==
    /\ treeCall.fn = "setbyaddr"
    /\ treeOut = Pending
    /\ LET o1 == treeCall.op1
           o2 == treeCall.op2
           S(t, o) == setbyaddr("TraefikConfig", t, o.addr, o.value)
       IN treeOut' = [r1 |-> S(treeCall.t, o1),
                      r12 |-> S(S(treeCall.t, o1), o2),
                      r21 |-> S(S(treeCall.t, o2), o1)]
    /\ UNCHANGED treeCall

\* TraefikConfig.model_validate(t) and TraefikConfig.model_validate(u)
ApplyValidate ==
    /\ treeCall.fn = "validate"
    /\ treeOut = Pending
    /\ treeOut' = [rt |-> model_validate("TraefikConfig", treeCall.t),
                   ru |-> model_validate("TraefikConfig", treeCall.u)]
    /\ UNCHANGED treeCall

\* TraefikConfig.model_validate(t.model_dump(**excludes)), and its dump
ApplyRoundTrip ==
    /\ treeCall.fn = "roundtrip"
    /\ treeOut = Pending
    /\ LET d1 == model_dump("TraefikConfig", treeCall.t)
           t2 == model_validate("TraefikConfig", d1)
       IN treeOut' = [d1 |-> d1, t2 |-> t2, d2 |-> model_dump("TraefikConfig", t2)]
    /\ UNCHANGED treeCall


(***************************************************************************)
(* traefik_dump                                                            *)
(***************************************************************************)
MaxContainers == 2

Label(k, v) == [k |-> k, v |-> v]
PortKey(name) ==
    <<"traefik", ".", "http", ".", "services", ".", name, ".", "loadbalancer", ".",
      "server", ".", "port">>

\* ctn.labels of the containers, in the order of the mapping
LabelSets ==
    {<<>>,
     <<Label(<<"traefik", ".", "enable">>, "true")>>,
     <<Label(<<"traefik", ".", "enable">>, "true"), Label(<<"app">>, "s"),
       Label(<<"traefikx", ".", "api">>, "s")>>,
     <<Label(<<"traefik", ".", "enable">>, "true"), Label(PortKey("s"), "80")>>,
     <<Label(PortKey("s"), "8080"), Label(<<"traefik", ".", "enable">>, "true")>>,
     <<Label(<<"traefik", ".", "enable">>, "true"),
       Label(<<"traefik", ".", "api", ".", "x">>, "t")>>,
     <<Label(<<"traefik", ".", "enable">>, "false"), Label(PortKey("s"), "80")>>,
     <<Label(<<"traefik", ".", "enable">>, "True"),
       Label(<<"traefik", ".", "api", ".", "x">>, "t")>>,
     <<Label(<<"traefik", ".", "api", ".", "x">>, "t")>>}

\* ctn.image.tags, ctn.attrs["Args"], ctn.attrs["Config"]["Env"] and the files
\* of the container
Images ==
    {[tags |-> <<"app:1">>, args |-> <<>>, envs |-> <<>>, files |-> <<>>],
     [tags |-> <<>>, args |-> <<>>, envs |-> <<>>, files |-> <<>>],
     [tags |-> <<"traefik:v3">>, args |-> <<>>, envs |-> <<>>, files |-> <<>>],
     [tags |-> <<"traefik:v3">>,
      args |-> <<<<"--", "api", ".", "x", "=", "s">>,
                 <<"--", "providers", ".", "file", ".", "filename", "=", "/etc/t.yml">>>>,
      envs |-> <<>>,
      files |-> <<[fn |-> <<"t", ".", "yml">>, doc |-> One("api", One("x", PyStr("u")))]>>],
     [tags |-> <<"traefik:v3">>, args |-> <<<<"sh">>>>,
      envs |-> <<<<"PATH", "=", "/bin">>, <<"TRAEFIK", "_", "API", "_", "X", "=", "u">>>>,
      files |-> <<>>]}

\* ctn.attrs["NetworkSettings"]["Networks"]: the address of each attachment
Networks == {<<>>, <<"10.0.0.2", "10.0.0.3">>}

Ctn(image, labels, addrs) ==
    [name |-> "a", tags |-> image.tags, args |-> image.args, envs |-> image.envs,
     files |-> image.files, labels |-> labels, addrs |-> addrs]

\* the containers that client.containers.list() may hold
Containers ==
    {Ctn(i, l, <<>>) : i \in {x \in Images : x.tags = <<"app:1">>}, l \in LabelSets}
    \cup {Ctn(i, l, n) : i \in {x \in Images : x.tags = <<"app:1">>},
                         l \in {x \in LabelSets : \E k \in DOMAIN x : x[k].k = PortKey("s")},
                         n \in Networks}
    \cup {Ctn(i, l, <<>>) : i \in Images, l \in {x \in LabelSets : Len(x) <= 1}}

\* "traefik" in tag
HasTraefik(tag) == tag \in {"traefik:v3", "traefik"}

DumpInit ==
    /\ containers \in UNION {[1..n -> Containers] : n \in 0..MaxContainers}
    /\ visited = 0
    /\ from_conf = NewConfig("TraefikConfig")
    /\ from_args = NewConfig("TraefikConfig")
    /\ from_envs = NewConfig("TraefikConfig")
    /\ from_label = NewConfig("TraefikConfig")
    /\ dumpOut = Pending

DumpIdle ==
    /\ containers = <<>>
    /\ visited = 0
    /\ from_conf = Idle
    /\ from_args = Idle
    /\ from_envs = Idle
    /\ from_label = Idle
    /\ dumpOut = Idle

\* ctn.labels.get(key)
LabelGet(labels, key) ==
    IF \E i \in DOMAIN labels : labels[i].k = key
    THEN PyStr(labels[CHOOSE i \in DOMAIN labels : labels[i].k = key].v)
    ELSE PyNone

\* a gate that any value of traefik.enable opens
Enabled_any(ctn) == LabelGet(ctn.labels, <<"traefik", ".", "enable">>) # PyNone

\* the gate of traefik_dump on a container's labels
Enabled(ctn) == LabelGet(ctn.labels, <<"traefik", ".", "enable">>) = PyStr("true")

\* the label tree of an enabled container
ContainerLabels(ctn) ==
    traefik_label_config(ctn.labels, PyStr(ctn.name),
                         PyStr(IF ctn.addrs # <<>> THEN ctn.addrs[1] ELSE ""))

\* the sidecar branch of the loop of traefik_dump: the three trees after it
Sidecar(ctn, args, envs, conf) ==
    IF ctn.tags = <<>> THEN Raise("IndexError")
    ELSE IF HasTraefik(ctn.tags[1]) THEN traefik_container_config(ctn)
    ELSE PyTuple(<<args, envs, conf>>)

\* the label branch of the loop of traefik_dump: from_label after it
Labelled(ctn, side, label) ==
    IF IsErr(side) THEN side
    ELSE IF Enabled(ctn) THEN merge("TraefikConfig", label, ContainerLabels(ctn))
    ELSE label

\* (from_args, from_envs, from_conf, from_label) after an iteration
Pack(side, label) ==
    IF IsErr(label) THEN label ELSE PyTuple(side.items \o <<label>>)

\* the body of the loop of traefik_dump on the four trees
LoopBody(ctn, side, label) == Pack(side, Labelled(ctn, side, label))

\* res = from_conf.merge(from_envs).merge(from_args).merge(from_label), dumped
DumpResult(res) == IF IsErr(res) THEN res ELSE model_dump("TraefikConfig", res)
MergeSources(args, envs, conf, label) ==
    DumpResult(merge("TraefikConfig",
                     merge("TraefikConfig", merge("TraefikConfig", conf, envs), args),
                     label))

\* the assignments of one iteration
Assign(trees) ==
    IF IsErr(trees)
    THEN /\ dumpOut' = trees
         /\ UNCHANGED <<from_args, from_envs, from_conf, from_label>>
    ELSE /\ from_args' = trees.items[1]
         /\ from_envs' = trees.items[2]
         /\ from_conf' = trees.items[3]
         /\ from_label' = trees.items[4]
         /\ UNCHANGED dumpOut

\* one iteration of the loop of traefik_dump
DumpContainer ==
    /\ dumpOut = Pending
    /\ visited < Len(containers)
    /\ Assign(LoopBody(containers[visited + 1],
                       Sidecar(containers[visited + 1], from_args, from_envs, from_conf),
                       from_label))
    /\ visited' = visited + 1
    /\ UNCHANGED containers

\* after the loop: the merge of the four source trees and its dump
DumpReturn ==
    /\ dumpOut = Pending
    /\ visited = Len(containers)
    /\ dumpOut' = MergeSources(from_args, from_envs, from_conf, from_label)
    /\ UNCHANGED <<containers, visited, from_conf, from_args, from_envs, from_label>>

\* traefik_dump as a function of the containers the client lists
RECURSIVE DumpLoop(_, _)
DumpLoop(trees, ctns) ==
    IF IsErr(trees) THEN trees
    ELSE IF ctns = <<>>
    THEN MergeSources(trees.items[1], trees.items[2], trees.items[3], trees.items[4])
    ELSE DumpLoop(LoopBody(Head(ctns),
                           Sidecar(Head(ctns), trees.items[1], trees.items[2],
                                   trees.items[3]),
                           trees.items[4]),
                  Tail(ctns))

traefik_dump(ctns) ==
    DumpLoop(PyTuple(<<NewConfig("TraefikConfig"), NewConfig("TraefikConfig"),
                       NewConfig("TraefikConfig"), NewConfig("TraefikConfig")>>), ctns)



(***************************************************************************)
(* compose.py: the reconstruction of a compose document from the running   *)
(* containers.  A mapping of str to str (labels, environment) is a         *)
(* function; a label key and a container name are sequences of parts, an   *)
(* environment key is the text before the first "=".                       *)
(***************************************************************************)
MaxServices == 2

\* d[k] = v
Put(d, k, v) == [x \in DOMAIN d \cup {k} |-> IF x = k THEN v ELSE d[x]]
NoEntries == [x \in {} |-> ""]

RECURSIVE envlist2map(_)
envlist2map(env) ==
    IF env = <<>> THEN NoEntries
    ELSE LET i == env[Len(env)]
             res == envlist2map(SubSeq(env, 1, Len(env) - 1))
         IN IF FindPart(i, "=") # 0 THEN Put(res, Join(BeforeEq(i)), AfterEq(i)) ELSE res

\* for k, v in img.items(): if d.get(k) == v: d.pop(k)
\* what is left of d when only the key is compared
DropSame_key(d, img) == [k \in DOMAIN d \ DOMAIN img |-> d[k]]

DropSame(d, img) ==
    [k \in {x \in DOMAIN d : ~(x \in DOMAIN img /\ img[x] = d[x])} |-> d[k]]

ComposeKey(name) == <<"com", ".", "docker", ".", "compose", ".">> \o name

\* {k: v for k, v in labels.items() if not k.startswith("com.docker.compose.")}
NotCompose(labels) ==
    [k \in {x \in DOMAIN labels : ~StartsWith(x, ComposeKey(<<>>))} |-> labels[k]]

\* fnmatch.fnmatch(name, pat)
fnmatch(name, pat) ==
    CASE pat = "*" -> TRUE
      [] pat = "proj*" -> name \in {"proj1", "proj2"}
      [] OTHER -> name = pat

\* guards that leave out the match of the project against the glob
Skipped_noglob(labels, all, project) ==
    LET key == ComposeKey(<<"project">>)
    IN /\ ~all
       /\ \/ key \notin DOMAIN labels
          \/ labels[key] = ""

\* the guards of the loop of compose: the container is no service
Skipped(labels, all, project) ==
    LET key == ComposeKey(<<"project">>)
    IN /\ ~all
       /\ \/ key \notin DOMAIN labels
          \/ labels[key] = ""
          \/ ~fnmatch(labels[key], project)

\* name = labels.get("com.docker.compose.service", ctn.name)
ServiceName(ctn) ==
    IF ComposeKey(<<"service">>) \in DOMAIN ctn.Labels
    THEN ctn.Labels[ComposeKey(<<"service">>)]
    ELSE Join(ctn.name)

\* proj and not ctn.name.startswith(proj + "_")
NamedApart(ctn) ==
    LET key == ComposeKey(<<"project">>)
    IN /\ key \in DOMAIN ctn.Labels
       /\ ctn.Labels[key] # ""
       /\ ~StartsWith(ctn.name, <<ctn.Labels[key], "_">>)

\* v[0].get(key) of a port binding, in an f-string
Field(binding, key) == IF key \in DOMAIN binding THEN binding[key] ELSE "None"

\* the entry of portmap2compose for a container port k and its bindings v
\* (every port of the map has a binding, as the engine reports them)
PortEntry(k, v) ==
    IF EndsWith(k, <<"/", "tcp">>) /\ Len(v) = 1
    THEN IF "HostIp" \in DOMAIN v[1] /\ v[1]["HostIp"] # ""
         THEN PyStr(v[1]["HostIp"] \o ":" \o Field(v[1], "HostPort") \o ":"
                    \o SplitOn(k, "/")[1])
         ELSE PyStr(Field(v[1], "HostPort") \o ":" \o SplitOn(k, "/")[1])
    ELSE IF FindPart(k, "/") = 0 THEN Raise("ValueError")
    ELSE IF IsErr(int(Join(SubSeq(k, 1, FindPart(k, "/") - 1)))) THEN Raise("ValueError")
    ELSE IF v = <<>> THEN Raise("IndexError")
    ELSE PyDict(("target" :> int(Join(SubSeq(k, 1, FindPart(k, "/") - 1))))
             @@ ("published" :> IF "HostPort" \in DOMAIN v[1]
                                THEN PyStr(v[1]["HostPort"]) ELSE PyNone)
             @@ ("protocol" :> PyStr(Join(SubSeq(k, FindPart(k, "/") + 1, Len(k)))))
             @@ ("mode" :> PyStr("host")))

\* a portmap2compose that gives the short form to every port with one binding
PortEntries_short(pmap) ==
    [i \in DOMAIN pmap |->
        IF Len(pmap[i].v) = 1
        THEN PyStr(Field(pmap[i].v[1], "HostPort") \o ":" \o SplitOn(pmap[i].k, "/")[1])
        ELSE PortEntry(pmap[i].k, pmap[i].v)]

\* the entries of the loop of portmap2compose over pmap.items()
PortEntries(pmap) == [i \in DOMAIN pmap |-> PortEntry(pmap[i].k, pmap[i].v)]

\* portmap2compose; the mapping is the sequence of its items
portmap2compose(pmap) ==
    IF FirstErr(PortEntries(pmap)) # PyNone THEN FirstErr(PortEntries(pmap))
    ELSE PyList(PortEntries(pmap))

\* i.split(":", 2) of a bind
SplitBind(i) ==
    IF FindPart(i, ":") = 0 THEN <<i>>
    ELSE IF FindPart(SubSeq(i, FindPart(i, ":") + 1, Len(i)), ":") = 0
    THEN <<SubSeq(i, 1, FindPart(i, ":") - 1), SubSeq(i, FindPart(i, ":") + 1, Len(i))>>
    ELSE <<SubSeq(i, 1, FindPart(i, ":") - 1),
           SubSeq(SubSeq(i, FindPart(i, ":") + 1, Len(i)), 1,
                  FindPart(SubSeq(i, FindPart(i, ":") + 1, Len(i)), ":") - 1),
           SubSeq(SubSeq(i, FindPart(i, ":") + 1, Len(i)),
                  FindPart(SubSeq(i, FindPart(i, ":") + 1, Len(i)), ":") + 1,
                  Len(SubSeq(i, FindPart(i, ":") + 1, Len(i))))>>

\* the names of the text of a path and the "/" between them
PathParts(s) ==
    CASE s = "/home/dir" -> <<"/", "home", "/", "dir">>
      [] s = "/home/dir/" -> <<"/", "home", "/", "dir", "/">>
      [] s = "/" -> <<"/">>
      [] OTHER -> IF s = "" THEN <<>> ELSE <<s>>

\* pathlib.Path(text): whether the path is absolute, and its segments.  The
\* text is the sequence of its names and of the "/" between them; an empty
\* name and "." are no segments.  (A text that starts with exactly two "/"
\* keeps them; the model holds no such text.)
Path(toks) ==
    [abs |-> toks # <<>> /\ Head(toks) = "/",
     segs |-> SelectSeq(toks, LAMBDA t : t \notin {"/", ".", ""})]

\* str(path)
PathStr(p) ==
    IF p.segs = <<>> THEN IF p.abs THEN "/" ELSE "."
    ELSE (IF p.abs THEN "/" ELSE "") \o JoinWith(p.segs, "/")

\* path.is_relative_to(other)
is_relative_to(p, other) ==
    /\ p.abs = other.abs
    /\ Len(other.segs) <= Len(p.segs)
    /\ SubSeq(p.segs, 1, Len(other.segs)) = other.segs

\* path.relative_to(other)
relative_to(p, other) ==
    [abs |-> FALSE, segs |-> SubSeq(p.segs, Len(other.segs) + 1, Len(p.segs))]

\* wdir = Path(labels.get("com.docker.compose.project.working_dir", "/"))
Wdir(labels) ==
    IF ComposeKey(<<"project", ".", "working", "_", "dir">>) \in DOMAIN labels
    THEN Path(PathParts(labels[ComposeKey(<<"project", ".", "working", "_", "dir">>)]))
    ELSE Path(<<"/">>)

\* src of a bind, as the entry holds it
BindSource(v, wdir) ==
    IF is_relative_to(Path(v[1]), wdir)
    THEN "./" \o PathStr(relative_to(Path(v[1]), wdir))
    ELSE PathStr(Path(v[1]))

\* the entries that the body of the loop over Binds appends to cvols
BindEntry(i, imgvol, wdir) ==
    IF imgvol # {} /\ Join(SplitBind(i)[2]) \in imgvol THEN <<>>
    ELSE IF Len(SplitBind(i)) = 2 \/ Join(SplitBind(i)[3]) = "rw"
    THEN <<BindSource(SplitBind(i), wdir) \o ":" \o Join(SplitBind(i)[2])>>
    ELSE <<BindSource(SplitBind(i), wdir) \o ":" \o Join(SplitBind(i)[2])
           \o ":" \o Join(SplitBind(i)[3])>>

\* cvols after the loop over hostconfig["Binds"]
RECURSIVE BindLoop(_, _, _)
BindLoop(binds, imgvol, wdir) ==
    IF binds = <<>> THEN <<>>
    ELSE BindEntry(Head(binds), imgvol, wdir) \o BindLoop(Tail(binds), imgvol, wdir)

\* volname of a mount: Source without the prefix proj + "_"
Volname(m, proj) ==
    IF StartsWith(m.Source, <<proj, "_">>)
    THEN Join(SubSeq(m.Source, 3, Len(m.Source)))
    ELSE Join(m.Source)

\* cvols and vols after the loop over hostconfig["Mounts"]; proj + "_" of a
\* container without project label raises
RECURSIVE MountLoop(_, _, _, _)
MountLoop(acc, mounts, imgvol, labels) ==
    IF mounts = <<>> \/ IsErr(acc) THEN acc
    ELSE IF imgvol # {} /\ Head(mounts).Target \in imgvol
    THEN MountLoop(acc, Tail(mounts), imgvol, labels)
    ELSE IF ComposeKey(<<"project">>) \notin DOMAIN labels THEN Raise("TypeError")
    ELSE MountLoop(
            [kind |-> "volumes",
             vols |-> IF Head(mounts).Type = "volume"
                      THEN Put(acc.vols,
                               Volname(Head(mounts), labels[ComposeKey(<<"project">>)]),
                               Head(mounts).VolumeOptions)
                      ELSE acc.vols,
             cvols |-> IF Head(mounts).Target # ""
                       THEN Append(acc.cvols,
                                   Volname(Head(mounts), labels[ComposeKey(<<"project">>)])
                                   \o ":" \o Head(mounts).Target)
                       ELSE acc.cvols],
            Tail(mounts), imgvol, labels)

\* cvols of a container, and vols after it
Volumes(ctn, vols_) ==
    MountLoop([kind |-> "volumes", vols |-> vols_,
               cvols |-> BindLoop(ctn.Binds, ctn.imgvol, Wdir(ctn.Labels))],
              ctn.Mounts, ctn.imgvol, ctn.Labels)

\* svc["ports"] of a container, None when it has no port bindings
Ports(ctn) ==
    IF ctn.PortBindings = <<>> THEN PyNone ELSE portmap2compose(ctn.PortBindings)

\* the entries of the service that compose builds from the image name, the
\* container name, the volumes, the ports, the labels and the environment
Optional(key, present, value) == IF present THEN [x \in {key} |-> value] ELSE <<>>

\* proj = labels.get("com.docker.compose.project")
Proj(ctn) ==
    IF ComposeKey(<<"project">>) \in DOMAIN ctn.Labels
    THEN PyStr(ctn.Labels[ComposeKey(<<"project">>)]) ELSE PyNone

\* nwmode after line 147: the network mode of the container, unless it is
\* the default network of its project
Nwmode(ctn) ==
    IF ~Truthy(Proj(ctn)) \/ ctn.NetworkMode # PyStr(Proj(ctn).s \o "_default")
    THEN ctn.NetworkMode ELSE PyNone

\* cnws: the network of the container that is no mode
Cnws(ctn) ==
    IF Nwmode(ctn) \notin {PyNone, PyStr("host"), PyStr("none")}
    THEN <<Nwmode(ctn).s>> ELSE <<>>

\* nwmode after line 151
NetworkModeOf(ctn) == IF Cnws(ctn) # <<>> THEN PyNone ELSE Nwmode(ctn)

\* hostconfig.get("RestartPolicy", {}).get("Name")
RestartName(ctn) ==
    IF ctn.RestartPolicy = PyNone \/ "Name" \notin Keys(ctn.RestartPolicy) THEN PyNone
    ELSE ctn.RestartPolicy.m["Name"]

Service(ctn, labels, envs, cvols, ports) ==
    [x \in {"image"} |-> ctn.Image]
    @@ Optional("container_name", NamedApart(ctn), Join(ctn.name))
    @@ Optional("network_mode", Truthy(NetworkModeOf(ctn)), NetworkModeOf(ctn))
    @@ Optional("volumes", cvols # <<>>, cvols)
    @@ Optional("networks", Cnws(ctn) # <<>>, Cnws(ctn))
    @@ Optional("ports", ports # PyNone, ports)
    @@ Optional("restart", RestartName(ctn) \notin {PyStr("no"), PyNone}, RestartName(ctn))
    @@ Optional("labels", DOMAIN labels # {}, labels)
    @@ Optional("environment", DOMAIN envs # {}, envs)

\* convdict(convmap, fromdict, todict): todict after it; convmap is the
\* sequence of its items
RECURSIVE convdict(_, _, _)
convdict(convmap, fromdict, todict) ==
    IF convmap = <<>> THEN todict
    ELSE convdict(Tail(convmap), fromdict,
                  IF /\ Head(convmap)[1] \in DOMAIN fromdict
                     /\ Truthy(fromdict[Head(convmap)[1]])
                  THEN Put(todict, Head(convmap)[2], fromdict[Head(convmap)[1]])
                  ELSE todict)

\* convdict_differ(convmap, dict_img, dict_ctn, todict): todict after it
RECURSIVE convdict_differ(_, _, _, _)
convdict_differ(convmap, dict_img, dict_ctn, todict) ==
    IF convmap = <<>> THEN todict
    ELSE convdict_differ(
            Tail(convmap), dict_img, dict_ctn,
            IF /\ Head(convmap)[1] \in DOMAIN dict_ctn
               /\ (IF Head(convmap)[1] \in DOMAIN dict_img
                   THEN dict_img[Head(convmap)[1]] ELSE PyNone)
                    # dict_ctn[Head(convmap)[1]]
            THEN Put(todict, Head(convmap)[2], dict_ctn[Head(convmap)[1]])
            ELSE todict)

convmap_hostconfig ==
    << <<"ExtraHosts", "extra_hosts">>, <<"CpuShares", "cpu_shares">>,
       <<"CpuPeriod", "cpu_period">>, <<"CpuPercent", "cpu_percent">>,
       <<"CpuCount", "cpu_count">>, <<"CpuQuota", "cpu_quota">>,
       <<"CpuRealtimeRuntime", "cpu_rt_runtime">>, <<"CpuRealtimePeriod", "cpu_rt_period">>,
       <<"CpusetCpus", "cpuset">>, <<"CapAdd", "cap_add">>, <<"CapDrop", "cap_drop">>,
       <<"CgroupParent", "cgroup_parent">>, <<"GroupAdd", "group_add">>,
       <<"Privileged", "privileged">> >>
convmap_label == << <<ComposeKey(<<"depends", "_", "on">>), "depends_on">> >>
diffcopy_config == << <<"Cmd", "command">>, <<"Entrypoint", "entrypoint">> >>

\* the labels of a container as values
LabelValues(labels) == [k \in DOMAIN labels |-> PyStr(labels[k])]

\* svc as svcs gets it: the service after the two convdict and convdict_differ;
\* popped is Config.Labels after the loop that drops the labels of the image
Converted(ctn, popped, svc_) ==
    convdict_differ(diffcopy_config, ctn.imgconfig, ctn.Config,
                    convdict(convmap_label, LabelValues(popped),
                             convdict(convmap_hostconfig, ctn.Host, svc_)))

\* the archive the engine gives for a path of a container: its members, the
\* names as their segments
Member(name, isreg) == [name |-> name, isreg |-> isreg]
ArchiveOf(dest) ==
    CASE dest = "/data" -> <<Member(<<"data">>, FALSE), Member(<<"data", "f">>, TRUE),
                             Member(<<"data", "sub">>, FALSE),
                             Member(<<"data", "sub", "g">>, TRUE)>>
      [] dest = "/w" -> <<Member(<<"w">>, TRUE)>>
      [] dest = "/x" -> <<Member(<<"x">>, FALSE)>>
      [] dest = "/img" -> <<Member(<<"img">>, FALSE), Member(<<"img", "i">>, TRUE)>>
      [] dest = "/s" -> <<Member(<<"s">>, FALSE)>>
      [] OTHER -> <<Member(<<"v">>, TRUE)>>

\* a path and the directories above it
Upwards(path) ==
    {[abs |-> path.abs, segs |-> SubSeq(path.segs, 1, n)] : n \in 1..Len(path.segs)}

\* copy_files(ctn, src, dst): the paths it creates, given those that exist.
\* One regular member is extracted into the parent of dst; else dst is made
\* and the members are extracted into it without the first segment of their
\* names, those of one segment not at all.  mkdir(parents=True) and
\* extractall make the directories above what they write.
copy_files(members, dst, exists) ==
    LET written ==
            IF Len(members) = 1 /\ members[1].isreg
            THEN {[abs |-> dst.abs,
                   segs |-> SubSeq(dst.segs, 1, Len(dst.segs) - 1) \o members[1].name]}
            ELSE {dst}
                 \cup {[abs |-> dst.abs, segs |-> dst.segs \o Tail(members[i].name)] :
                         i \in {j \in DOMAIN members : Len(members[j].name) > 1}}
    IN {PathStr(q) : q \in UNION {Upwards(w) : w \in written}} \ exists

\* the paths that the loop over Binds creates when output and volume are
\* given: copy_files for every bind that is kept and whose source is under
\* the working directory, each on what the copies before it have left
RECURSIVE Copies(_, _, _, _, _)
Copies(binds, imgvol, wdir, output, exists) ==
    IF binds = <<>> THEN {}
    ELSE LET made ==
                 IF /\ ~(imgvol # {} /\ Join(SplitBind(Head(binds))[2]) \in imgvol)
                    /\ is_relative_to(Path(SplitBind(Head(binds))[1]), wdir)
                 THEN copy_files(ArchiveOf(Join(SplitBind(Head(binds))[2])),
                                 [abs |-> FALSE,
                                  segs |-> <<output>>
                                           \o relative_to(Path(SplitBind(Head(binds))[1]),
                                                           wdir).segs],
                                 exists)
                 ELSE {}
         IN made \cup Copies(Tail(binds), imgvol, wdir, output, exists \cup made)

Entries(q) == [k \in {q[i][1] : i \in DOMAIN q} |->
                  q[CHOOSE i \in DOMAIN q : q[i][1] = k][2]]

ImageLabels ==
    Entries(<<<<<<"image-label1">>, "image-value1">>, <<<<"image-label2">>, "image-value2">>>>)

ContainerLabels1 ==
    Entries(<<<<ComposeKey(<<"project">>), "proj1">>, <<ComposeKey(<<"service">>), "ctn1">>,
              <<<<"key2">>, "value2">>, <<<<"image-label1">>, "image-value1">>,
              <<<<"image-label2">>, "container-value">>>>)
ContainerLabels2 ==
    Entries(<<<<ComposeKey(<<"project">>), "proj2">>,
              <<<<"image-label1">>, "image-value1">>>>)
ContainerLabels3 ==
    Entries(<<<<<<"key2">>, "value2">>, <<<<"image-label2">>, "image-value2">>>>)

Env(k, v) == <<k, "=", v>>

\* the containers: their name, Config.Image, Config.Labels, Config.Env, and
\* the labels and Config.Env of their image
PlainContainers ==
    {[name |-> n, Image |-> "docker-image:latest", Labels |-> l, Env |-> <<>>,
      imglabel |-> il, imgenv |-> <<>>] :
        n \in {<<"proj1", "_", "ctn1">>, <<"name2">>},
        l \in {NoEntries, ContainerLabels1, ContainerLabels2, ContainerLabels3},
        il \in {NoEntries, ImageLabels}}
    \cup
    {[name |-> <<"name2">>, Image |-> "docker-image:latest", Labels |-> ContainerLabels1,
      Env |-> e, imglabel |-> ImageLabels, imgenv |-> ie] :
        e \in {<<>>, <<Env("A", "1"), Env("B", "2")>>, <<Env("A", "2"), Env("A", "1")>>,
               <<Env("A", "1"), <<"env2", "=", "value2", "=", "ext2">>, <<"C">>>>},
        ie \in {<<>>, <<Env("A", "1")>>, <<Env("A", "1"), Env("A", "2")>>}}

\* a container of PlainContainers has no binds, no mounts, no port bindings,
\* and an image without volumes
ComposeContainers ==
    {[name |-> c.name, Image |-> c.Image, Labels |-> c.Labels, Env |-> c.Env,
      imglabel |-> c.imglabel, imgenv |-> c.imgenv, Binds |-> <<>>, Mounts |-> <<>>,
      PortBindings |-> <<>>, imgvol |-> {}, NetworkMode |-> PyNone,
      RestartPolicy |-> PyNone, Host |-> <<>>, Config |-> <<>>, imgconfig |-> <<>>] :
        c \in PlainContainers}

\* HostConfig.Binds: a source under /home/dir, the directory itself, one
\* beside it whose text begins alike, one elsewhere, one written with a slash
\* at its end, a named volume; modes rw, ro, none
Binds ==
    {<<"/", "home", "/", "dir", "/", "data", ":", "/data", ":", "rw">>,
     <<"/", "home", "/", "dir", ":", "/w">>,
     <<"/", "home", "/", "dirx", ":", "/x", ":", "ro">>,
     <<"/", "srv", "/", "data", ":", "/img", ":", "ro">>,
     <<"/", "srv", "/", ":", "/s">>,
     <<"vol", ":", "/v", ":", "z">>}

\* HostConfig.Mounts
Mount(type, source, target) ==
    [Type |-> type, Source |-> source, Target |-> target, VolumeOptions |-> NoEntries]
MountLists ==
    {<<>>,
     <<Mount("volume", <<"proj1", "_", "db">>, "/db")>>,
     <<Mount("volume", <<"cache">>, "/img"), Mount("bind", <<"/run">>, "/run")>>}

\* the labels of a container of a project with its working directory, of one
\* without working directory, and of a container of no project
VolumeLabels ==
    {Entries(<<<<ComposeKey(<<"project">>), "proj1">>,
               <<ComposeKey(<<"project", ".", "working", "_", "dir">>), "/home/dir">>>>),
     Entries(<<<<ComposeKey(<<"project">>), "proj1">>>>),
     Entries(<<<<<<"key2">>, "value2">>>>)}

\* the most binds and the most port bindings of a container
MaxBinds == 2
MaxPorts == 2

VolumeContainers ==
    {[name |-> <<"name2">>, Image |-> "docker-image:latest", Labels |-> l, Env |-> <<>>,
      imglabel |-> NoEntries, imgenv |-> <<>>, Binds |-> b, Mounts |-> m,
      PortBindings |-> <<>>, imgvol |-> iv, NetworkMode |-> PyNone,
      RestartPolicy |-> PyNone, Host |-> <<>>, Config |-> <<>>, imgconfig |-> <<>>] :
        l \in VolumeLabels,
        b \in UNION {[1..n -> Binds] : n \in 0..MaxBinds},
        m \in MountLists,
        iv \in {{}, {"/img"}}}

\* HostConfig.PortBindings: the items of the mapping, in its order
PortKeys == {<<"8080", "/", "tcp">>, <<"80", "/", "udp">>, <<"9999", "/", "tcp">>}
Bindings ==
    {<<[HostPort |-> "8080"]>>,
     <<[HostIp |-> "127.0.0.1", HostPort |-> "9999"]>>,
     <<[HostIp |-> "", HostPort |-> "80"]>>,
     <<[HostPort |-> "80"], [HostIp |-> "127.0.0.1", HostPort |-> "1024"]>>}
PortMaps ==
    {q \in UNION {[1..n -> [k : PortKeys, v : Bindings]] : n \in 1..MaxPorts} :
        \A i, j \in DOMAIN q : i # j => q[i].k # q[j].k}

PortContainers ==
    {[name |-> <<"name2">>, Image |-> "docker-image:latest", Labels |-> ContainerLabels1,
      Env |-> <<>>, imglabel |-> NoEntries, imgenv |-> <<>>, Binds |-> <<>>,
      Mounts |-> <<>>, PortBindings |-> p, imgvol |-> {}, NetworkMode |-> PyNone,
      RestartPolicy |-> PyNone, Host |-> <<>>, Config |-> <<>>, imgconfig |-> <<>>] :
        p \in PortMaps}

\* HostConfig.NetworkMode, HostConfig.RestartPolicy, the fields of HostConfig
\* that convdict copies, Cmd and Entrypoint of Config and of the Config of
\* the image, and the label com.docker.compose.depends_on
NetworkModes ==
    {PyNone, PyStr("host"), PyStr("none"), PyStr("bridge"), PyStr("proj1_default")}
RestartPolicies ==
    {PyNone, EmptyDict, One("Name", PyStr("always")), One("Name", PyStr("no")),
     One("Name", PyStr(""))}
HostFields ==
    {<<>>,
     ("Privileged" :> PyBool(TRUE)) @@ ("CapAdd" :> PyList(<<PyStr("NET_ADMIN")>>)),
     ("Privileged" :> PyBool(FALSE)) @@ ("CapAdd" :> PyNone) @@ ("CpuShares" :> PyInt(0))
        @@ ("ExtraHosts" :> PyList(<<>>)) @@ ("CgroupParent" :> PyStr("")),
     ("CpuShares" :> PyInt(512)) @@ ("CgroupParent" :> PyStr("cg"))
        @@ ("GroupAdd" :> PyList(<<PyStr("adm")>>))}
Configs ==
    {<<>>,
     ("Cmd" :> PyList(<<PyStr("sh")>>)),
     ("Cmd" :> PyNone) @@ ("Entrypoint" :> PyList(<<PyStr("/init")>>))}
DependsLabels ==
    {ContainerLabels1,
     Put(ContainerLabels1, ComposeKey(<<"depends", "_", "on">>), "db"),
     Put(ContainerLabels3, ComposeKey(<<"depends", "_", "on">>), "db"),
     Put(ContainerLabels1, ComposeKey(<<"depends", "_", "on">>), "")}
DependsImage ==
    {NoEntries, Put(NoEntries, ComposeKey(<<"depends", "_", "on">>), "db")}
HostContainer(l, il, nw, rp, h, c, ic) ==
    [name |-> <<"name2">>, Image |-> "docker-image:latest", Labels |-> l,
     Env |-> <<>>, imglabel |-> il, imgenv |-> <<>>, Binds |-> <<>>,
     Mounts |-> <<>>, PortBindings |-> <<>>, imgvol |-> {}, NetworkMode |-> nw,
     RestartPolicy |-> rp, Host |-> h, Config |-> c, imgconfig |-> ic]
HostContainers ==
    {HostContainer(l, NoEntries, nw, PyNone, <<>>, <<>>, <<>>) :
        l \in {ContainerLabels1, ContainerLabels3}, nw \in NetworkModes}
    \cup {HostContainer(ContainerLabels1, NoEntries, PyNone, rp, h, <<>>, <<>>) :
            rp \in RestartPolicies, h \in HostFields}
    \cup {HostContainer(ContainerLabels1, NoEntries, PyNone, PyNone, <<>>, c, ic) :
            c \in Configs, ic \in Configs}
    \cup {HostContainer(l, il, PyNone, PyNone, <<>>, <<>>, <<>>) :
            l \in DependsLabels, il \in DependsImage}

ComposeInit ==
    /\ \/ /\ composeArgs \in [all : BOOLEAN, project : {"*", "proj1"}, output : {PyNone},
                                volume : {FALSE}]
          /\ attrs \in UNION {[1..n -> ComposeContainers] : n \in 0..MaxServices}
                \cup {<<c>> : c \in VolumeContainers \cup PortContainers \cup HostContainers}
                \cup {<<c, d>> : c \in {v \in VolumeContainers : Len(v.Binds) = 1},
                                 d \in {v \in VolumeContainers :
                                           v.Binds = <<>> /\ v.imgvol = {}}}
                \cup {<<c, d>> : c, d \in {h \in HostContainers : h.NetworkMode # PyNone}}
       \/ /\ composeArgs \in [all : {TRUE}, project : {"*"}, output : {PyStr("out")},
                                volume : BOOLEAN]
          /\ attrs \in {<<c>> : c \in VolumeContainers}
                      \cup {<<c, d>> : c, d \in {h \in HostContainers :
                                                    h.NetworkMode # PyNone}}
    /\ composed = 0
    /\ svc = Idle
    /\ svcs = <<>>
    /\ vols = NoEntries
    /\ nets = NoEntries
    /\ copied = {}
    /\ yml = PyNone
    /\ composeOut = Pending

ComposeIdle ==
    /\ composeArgs = Idle
    /\ attrs = <<>>
    /\ composed = 0
    /\ svc = Idle
    /\ svcs = <<>>
    /\ vols = NoEntries
    /\ nets = NoEntries
    /\ copied = {}
    /\ yml = PyNone
    /\ composeOut = Idle

\* what the iteration for a container raises: the exception of the loop over
\* the mounts, or that of portmap2compose
ComposeRaised(ctn, vols_) ==
    IF IsErr(Volumes(ctn, vols_)) THEN Volumes(ctn, vols_)
    ELSE IF IsErr(Ports(ctn)) THEN Ports(ctn)
    ELSE Pending

\* one iteration of the loop of compose; the loop that drops the labels of the
\* image works on the mapping the container holds
ComposeContainer ==
    /\ composeOut = Pending
    /\ composed < Len(attrs)
    /\ LET ctn == attrs[composed + 1]
           labels == DropSame(ctn.Labels, ctn.imglabel)
           envs == DropSame(envlist2map(ctn.Env), envlist2map(ctn.imgenv))
       IN IF Skipped(ctn.Labels, composeArgs.all, composeArgs.project)
          THEN UNCHANGED <<attrs, svc, svcs, vols, nets, copied, composeOut>>
          ELSE /\ attrs' = [attrs EXCEPT ![composed + 1].Labels = labels]
               /\ copied' = IF Truthy(composeArgs.output) /\ composeArgs.volume
                            THEN copied \cup Copies(ctn.Binds, ctn.imgvol, Wdir(ctn.Labels),
                                                    composeArgs.output.s,
                                                    {composeArgs.output.s} \cup copied)
                            ELSE copied
               /\ composeOut' = ComposeRaised(ctn, vols)
               /\ IF composeOut' = Pending
                  THEN /\ svc' = Converted(ctn, labels,
                                           Service(ctn, NotCompose(labels), envs,
                                                   Volumes(ctn, vols).cvols, Ports(ctn)))
                       /\ svcs' = Put(svcs, ServiceName(ctn), svc')
                       /\ vols' = Volumes(ctn, vols).vols
                       /\ nets' = IF Cnws(ctn) # <<>>
                                  THEN Put(nets, Cnws(ctn)[1], NoEntries) ELSE nets
                  ELSE UNCHANGED <<svc, svcs, vols, nets>>
    /\ composed' = composed + 1
    /\ UNCHANGED <<composeArgs, yml>>

\* after the loop: the document
ComposeReturn ==
    /\ composeOut = Pending
    /\ composed = Len(attrs)
    /\ composeOut' = Optional("services", DOMAIN svcs # {}, svcs)
                      @@ Optional("volumes", DOMAIN vols # {}, vols)
                      @@ Optional("networks", DOMAIN nets # {}, nets)
    /\ yml' = IF Truthy(composeArgs.output)
              THEN [kind |-> "yaml", path |-> composeArgs.output.s \o "/compose.yml",
                    doc |-> composeOut']
              ELSE yml
    /\ UNCHANGED <<composeArgs, attrs, composed, svc, svcs, vols, nets, copied>>


(***************************************************************************)
(* util.py: the image delta.  A path is the sequence of its segments,      *)
(* <<"a", "b">> for /a/b and <<>> for /.  A mode is held as its bits 19    *)
(* and up (the type bits of modebits) and its bits below 19.               *)
(***************************************************************************)
MaxDiffLen == 3

\* modebits, as positions above bit 19
modebits ==
    [dir |-> 12, append |-> 11, exclusive |-> 10, temporary |-> 9, symlink |-> 8,
     device |-> 7, namedpipe |-> 6, socket |-> 5, setuid |-> 4, setgid |-> 3,
     chardev |-> 2, sticky |-> 1, irregular |-> 0]
nonreg == {"dir", "device", "namedpipe", "socket", "chardev", "irregular"}

Mode(high, low) == [high |-> high, low |-> low]

\* special_modes(mode)[0]
special_modes(mode) ==
    {k \in DOMAIN modebits : (mode.high \div (2 ^ modebits[k])) % 2 = 1}

\* Path(p) in Path(target).parents
IsParent(p, target) == Len(p) < Len(target) /\ SubSeq(target, 1, Len(p)) = p

\* fnmatch.fnmatch(target, p) for a pattern that is a path, or a path
\* followed by "/*"
PathMatch(target, p) ==
    /\ p.abs
    /\ IF p.glob THEN IsParent(p.path, target) /\ p.path # <<>> ELSE target = p.path

\* fnmatch.fnmatch(name, p) for a name without leading "/": a pattern with
\* a leading "/" does not match it
NameMatch(name, p) ==
    /\ ~p.abs
    /\ IF p.glob THEN IsParent(p.path, name) /\ p.path # <<>> ELSE name = p.path

is_match(patterns, target) == \E i \in DOMAIN patterns : PathMatch(target, patterns[i])

\* is_match for the name of a member of an archive
is_match_name(patterns, name) == \E i \in DOMAIN patterns : NameMatch(name, patterns[i])

\* an is_already that finds no parent
is_already_none(prev, target) == FALSE

is_already(prev, target) == \E p \in prev : IsParent(p, target)

\* the effect of do_kind0, do_kind1 and do_kind2 on the collection they are
\* given and on link
Collected(set, links) == [set |-> set, link |-> links]

\* a do_kind0 that keeps the directories, as do_kind1 does
do_kind0_dirs(modified_, path, links, stats) ==
    IF (nonreg \ {"dir"}) \cap special_modes(stats.mode) # {} THEN Collected(modified_, links)
    ELSE IF "symlink" \in special_modes(stats.mode) /\ stats.linkTarget # ""
    THEN Collected(modified_, Put(links, path, stats.linkTarget))
    ELSE Collected(modified_ \cup {path}, links)

do_kind0(modified_, path, links, stats) ==
    IF nonreg \cap special_modes(stats.mode) # {} THEN Collected(modified_, links)
    ELSE IF "symlink" \in special_modes(stats.mode) /\ stats.linkTarget # ""
    THEN Collected(modified_, Put(links, path, stats.linkTarget))
    ELSE Collected(modified_ \cup {path}, links)

do_kind1(added_, path, links, stats) ==
    IF is_already(added_, path) THEN Collected(added_, links)
    ELSE IF (nonreg \ {"dir"}) \cap special_modes(stats.mode) # {}
    THEN Collected(added_, links)
    ELSE IF "symlink" \in special_modes(stats.mode) /\ stats.linkTarget # ""
    THEN Collected(added_, Put(links, path, stats.linkTarget))
    ELSE Collected(added_ \cup {path}, links)

do_kind2(deleted_, path) ==
    IF is_already(deleted_, path) THEN deleted_ ELSE deleted_ \cup {path}

\* the files of a container: the stat of each path that exists
Stat(high, low, target) == [mode |-> Mode(high, low), linkTarget |-> target]
A == <<"a">>
AB == <<"a", "b">>
ABC == <<"a", "b", "c">>
D == <<"d">>
Files ==
    {(A :> Stat(4096, 493, "")) @@ (AB :> Stat(4096, 493, "")) @@ (ABC :> Stat(0, 420, ""))
        @@ (D :> Stat(256, 511, "t")),
     (A :> Stat(4098, 511, "")) @@ (AB :> Stat(0, 420, "")) @@ (D :> Stat(128, 432, "")),
     (D :> Stat(256, 511, "")),
     (D :> Stat(384, 511, "t"))}

\* container.diff(): each path once, a path that exists as modified (0) or
\* added (1), one that does not as deleted (2)
DiffEntries(files) ==
    {[Path |-> p, Kind |-> k] : p \in DOMAIN files, k \in {0, 1}}
    \cup {[Path |-> p, Kind |-> 2] : p \in {A, AB, ABC, D} \ DOMAIN files}
Diffs(files) ==
    {q \in UNION {[1..n -> DiffEntries(files)] : n \in 0..MaxDiffLen} :
        \A i, j \in DOMAIN q : i # j => q[i].Path # q[j].Path}

IgnoreLists ==
    {<<>>,
     <<[path |-> AB, glob |-> FALSE, abs |-> TRUE]>>,
     <<[path |-> A, glob |-> TRUE, abs |-> TRUE]>>,
     <<[path |-> A, glob |-> TRUE, abs |-> FALSE]>>}

DiffCalls ==
    UNION {[files : {f}, diff : Diffs(f), ignore : IgnoreLists] : f \in Files}

DiffInit ==
    /\ diffCall \in DiffCalls
    /\ diffSeen = 0
    /\ deleted = {}
    /\ added = {}
    /\ modified = {}
    /\ link = NoEntries
    /\ diffOut = Pending
    /\ dockerCall = Pending
    /\ dockerfile = <<>>
    /\ items = <<>>
    /\ genAt = "new"

DiffIdle ==
    /\ diffCall = Idle
    /\ diffSeen = 0
    /\ deleted = {}
    /\ added = {}
    /\ modified = {}
    /\ link = NoEntries
    /\ diffOut = Idle
    /\ dockerCall = Idle
    /\ dockerfile = <<>>
    /\ items = <<>>
    /\ genAt = "idle"

\* the branch of the loop of get_diff for an entry that is not ignored
Classify(path, kind, files) ==
    IF kind = 2
    THEN /\ deleted' = do_kind2(deleted, path)
         /\ UNCHANGED <<added, modified, link>>
    ELSE IF kind = 1
    THEN /\ added' = do_kind1(added, path, link, files[path]).set
         /\ link' = do_kind1(added, path, link, files[path]).link
         /\ UNCHANGED <<deleted, modified>>
    ELSE IF kind = 0
    THEN /\ modified' = do_kind0(modified, path, link, files[path]).set
         /\ link' = do_kind0(modified, path, link, files[path]).link
         /\ UNCHANGED <<deleted, added>>
    ELSE UNCHANGED <<deleted, added, modified, link>>

\* one iteration of the loop of get_diff
DiffEntry ==
    /\ diffOut = Pending
    /\ diffSeen < Len(diffCall.diff)
    /\ IF is_match(diffCall.ignore, diffCall.diff[diffSeen + 1].Path)
       THEN UNCHANGED <<deleted, added, modified, link>>
       ELSE Classify(diffCall.diff[diffSeen + 1].Path, diffCall.diff[diffSeen + 1].Kind,
                     diffCall.files)
    /\ diffSeen' = diffSeen + 1
    /\ UNCHANGED <<diffCall, diffOut, dockerCall, dockerfile, items, genAt>>

\* return deleted, added, modified, link
DiffReturn ==
    /\ diffOut = Pending
    /\ diffSeen = Len(diffCall.diff)
    /\ diffOut' = [deleted |-> deleted, added |-> added, modified |-> modified,
                   link |-> link]
    /\ UNCHANGED <<diffCall, diffSeen, deleted, added, modified, link, dockerCall, dockerfile,
                   items, genAt>>

\* the text of a path
PathText(path) == "/" \o JoinWith(path, "/")

\* sorted(paths): the paths of the model in the order of their texts
AZ == <<"a", "z">>
PathOrder == <<A, AB, ABC, AZ, D>>
Sorted(paths) == SelectSeq(PathOrder, LAMBDA path : path \in paths)

\* shlex.quote of a text given as its parts, a character that is not
\* [A-Za-z0-9_@%+=:,./-] being a part of its own
UnsafeChars == {" ", "'", "$", "*", "\""}
quote(toks) ==
    IF toks = <<>> THEN "''"
    ELSE IF \E i \in DOMAIN toks : toks[i] \in UnsafeChars
    THEN "'" \o Join([i \in DOMAIN toks |-> IF toks[i] = "'" THEN "'\"'\"'" ELSE toks[i]])
         \o "'"
    ELSE Join(toks)

\* a loop over the labels that also writes those the image holds
LabelLines_same(ctn_labels, image_labels) ==
    [i \in DOMAIN SelectSeq(ctn_labels, LAMBDA l : ~StartsWith(l.k, ComposeKey(<<>>))) |->
        "LABEL " \o quote(SelectSeq(ctn_labels, LAMBDA l : ~StartsWith(l.k, ComposeKey(<<>>)))[i].k)
        \o "=" \o quote(SelectSeq(ctn_labels, LAMBDA l : ~StartsWith(l.k, ComposeKey(<<>>)))[i].v)]

\* the lines of the loop over container.labels
LabelLines(ctn_labels, image_labels) ==
    LET kept == SelectSeq(ctn_labels,
                          LAMBDA l : /\ ~StartsWith(l.k, ComposeKey(<<>>))
                                     /\ ~(l.k \in DOMAIN image_labels /\ image_labels[l.k] = l.v))
    IN [i \in DOMAIN kept |-> "LABEL " \o quote(kept[i].k) \o "=" \o quote(kept[i].v)]

\* res of get_dockerfile
Dockerfile(call, deleted_, added_, modified_, link_) ==
    <<"FROM " \o call.from_image>>
    \o (IF deleted_ # {}
        THEN <<"RUN rm -rf "
               \o JoinWith([i \in DOMAIN Sorted(deleted_) |->
                               quote(<<PathText(Sorted(deleted_)[i])>>)], " ")>>
        ELSE <<>>)
    \o (IF added_ # {} THEN <<"ADD added.tar.gz /">> ELSE <<>>)
    \o (IF modified_ # {} THEN <<"ADD modified.tar.gz /">> ELSE <<>>)
    \o [i \in DOMAIN Sorted(DOMAIN link_) |->
            "RUN ln -sf " \o quote(<<link_[Sorted(DOMAIN link_)[i]]>>)
            \o " " \o quote(<<PathText(Sorted(DOMAIN link_)[i])>>)]
    \o (IF call.labels THEN LabelLines(call.ctn_labels, call.image_labels) ELSE <<>>)

\* an item that get_dockerfile yields; the content of an archive is held as
\* the paths that get_archives is given, sorted
Item(name, content) == [name |-> name, content |-> content]

\* the sequences of a sequence, one after the other
RECURSIVE Flatten(_)
Flatten(q) == IF q = <<>> THEN <<>> ELSE Head(q) \o Flatten(Tail(q))

\* member.isfile() of a member of the archive the engine gives for a path
IsFile(stat) == special_modes(stat.mode) \cap (nonreg \cup {"symlink"}) = {}

\* download_files(ctn, filename): the regular files of the archive of the
\* path, which the engine names from the last segment of the path on
download_files(files, filename) ==
    LET is_dir == "dir" \in special_modes(files[filename].mode)
        below == SelectSeq(PathOrder,
                           LAMBDA q : /\ q \in DOMAIN files
                                      /\ IsFile(files[q])
                                      /\ \/ q = filename
                                         \/ is_dir /\ IsParent(filename, q))
    IN [i \in DOMAIN below |->
          [is_dir |-> is_dir,
           name |-> SubSeq(below[i], Len(filename), Len(below[i]))]]

\* the names of the members that get_archives adds for the path fn
Added(files, fn, ignore) ==
    LET got == download_files(files, fn)
        named == [i \in DOMAIN got |-> IF got[i].is_dir THEN fn \o got[i].name ELSE fn]
    IN SelectSeq(named, LAMBDA name : ~is_match_name(ignore, name))

\* a get_archives that gives no archive when every member is ignored
get_archives_some(files, names, ignore) ==
    IF names = {} \/ \A fn \in names : Added(files, fn, ignore) = <<>> THEN PyNone
    ELSE [kind |-> "tar",
          members |-> Flatten([i \in DOMAIN Sorted(names) |->
                                  Added(files, Sorted(names)[i], ignore)])]

\* get_archives(container, names, ignore): None without names, else the
\* archive, held as the names of its members in their order
get_archives(files, names, ignore) ==
    IF names = {} THEN PyNone
    ELSE [kind |-> "tar",
          members |-> Flatten([i \in DOMAIN Sorted(names) |->
                                  Added(files, Sorted(names)[i], ignore)])]

\* the labels of a container, in the order of the mapping, and of its image
Pair(k, v) == [k |-> k, v |-> v]
DockerCalls ==
    [do_output : BOOLEAN, labels : BOOLEAN, from_image : {"docker-image:latest"},
     ctn_labels : {<<>>,
                   <<Pair(ComposeKey(<<"project">>), <<"proj1">>),
                     Pair(<<"ilabel1">>, <<"value1">>),
                     Pair(<<"ilabel2">>, <<"new", " ", "value">>),
                     Pair(<<"label1">>, <<"value1">>)>>,
                   <<Pair(<<"label1">>, <<>>), Pair(<<"it", "'", "s">>, <<"$", "x">>)>>},
     image_labels : {[x \in {} |-> <<>>],
                     (<<"ilabel1">> :> <<"value1">>) @@ (<<"ilabel2">> :> <<"value2">>)}]

\* the generator of get_dockerfile from the place it is resumed at to its
\* next yield, for the container as it is then: the item yielded, the yield
\* it is suspended at, and the lines of the Dockerfile
RECURSIVE Resume(_, _, _)
Resume(at, call, files) ==
    IF at = "ignore" /\ get_archives(files, diffOut.added, diffCall.ignore) # PyNone
    THEN [item |-> Item("added.tar.gz",
                        get_archives(files, diffOut.added, diffCall.ignore)),
          at |-> "added", res |-> <<>>]
    ELSE IF at = "ignore" THEN Resume("added", call, files)
    ELSE IF at = "added" /\ get_archives(files, diffOut.modified, diffCall.ignore) # PyNone
    THEN [item |-> Item("modified.tar.gz",
                        get_archives(files, diffOut.modified, diffCall.ignore)),
          at |-> "modified", res |-> <<>>]
    ELSE LET res == Dockerfile(call, diffOut.deleted, diffOut.added, diffOut.modified,
                               diffOut.link)
         IN [item |-> Item("Dockerfile", PyStr(JoinWith(res \o <<"">>, "\n"))),
             at |-> "dockerfile", res |-> res]

\* the first next() of get_dockerfile, after its call of get_diff has
\* returned: up to the yield of .dockerignore with output on, and of the
\* Dockerfile without
GetDockerfile ==
    /\ diffOut \notin {Pending, Idle}
    /\ dockerCall = Pending
    /\ dockerCall' \in DockerCalls
    /\ IF dockerCall'.do_output
       THEN /\ items' = <<Item(".dockerignore",
                               PyStr("*\n!added.tar.gz\n!modified.tar.gz\n"))>>
            /\ genAt' = "ignore"
            /\ dockerfile' = dockerfile
       ELSE /\ items' = <<Resume("modified", dockerCall', diffCall.files).item>>
            /\ genAt' = "dockerfile"
            /\ dockerfile' = Resume("modified", dockerCall', diffCall.files).res
    /\ UNCHANGED <<diffCall, diffSeen, deleted, added, modified, link, diffOut>>

\* a later next(): the generator runs from its yield to the next one
DockerfileNext ==
    /\ genAt \in {"ignore", "added", "modified"}
    /\ items' = Append(items, Resume(genAt, dockerCall, diffCall.files).item)
    /\ genAt' = Resume(genAt, dockerCall, diffCall.files).at
    /\ dockerfile' = Resume(genAt, dockerCall, diffCall.files).res
    /\ UNCHANGED <<diffCall, diffSeen, deleted, added, modified, link, diffOut, dockerCall>>

\* next() after the yield of the Dockerfile: the generator ends
DockerfileReturn ==
    /\ genAt = "dockerfile"
    /\ genAt' = "returned"
    /\ UNCHANGED <<diffCall, diffSeen, deleted, added, modified, link, diffOut, dockerCall,
                   dockerfile, items>>

\* the consumer takes no further item, as the route get_dockerfile does
\* after the first
DockerfileClose ==
    /\ genAt \in {"ignore", "added", "modified", "dockerfile"}
    /\ genAt' = "closed"
    /\ UNCHANGED <<diffCall, diffSeen, deleted, added, modified, link, diffOut, dockerCall,
                   dockerfile, items>>

\* the container changes while the generator is suspended: it gets a label,
\* or a file in a directory it has, each once
ContainerChanges ==
    /\ genAt \in {"ignore", "added", "modified"}
    /\ \/ /\ \A i \in DOMAIN dockerCall.ctn_labels : dockerCall.ctn_labels[i].k # <<"late">>
          /\ dockerCall' = [dockerCall EXCEPT
                                !.ctn_labels = Append(@, Pair(<<"late">>, <<"x">>))]
          /\ UNCHANGED diffCall
       \/ /\ AZ \notin DOMAIN diffCall.files
          /\ A \in DOMAIN diffCall.files
          /\ "dir" \in special_modes(diffCall.files[A].mode)
          /\ diffCall' = [diffCall EXCEPT !.files = @ @@ (AZ :> Stat(0, 420, ""))]
          /\ UNCHANGED dockerCall
    /\ UNCHANGED <<diffSeen, deleted, added, modified, link, diffOut, dockerfile, items, genAt>>


(***************************************************************************)
(* traefik2nginx and traefik2apache, called with a dict, without baseconf  *)
(* and with the server URL http://localhost                                *)
(***************************************************************************)
\* the middlewares a router names, at most
MaxChain == 2
\* the routers of a tree, at most
MaxRouters == 2

\* http.middlewares of the model's trees
Middlewares ==
    PyDict(
        ("strip" :> One("stripprefix", One("prefixes", PyList(<<PyStr("/a"), PyStr("/a.b")>>))))
     @@ ("stripc" :> One("stripprefix", One("prefixes", PyList(<<PyStr("/c")>>))))
     @@ ("regex" :> One("stripprefixregex", One("regex", PyList(<<PyStr("/v[0-9]+")>>))))
     @@ ("both" :> PyDict(("stripprefix" :> One("prefixes", PyList(<<PyStr("/a-b")>>)))
                       @@ ("stripprefixregex" :> One("regex", PyList(<<PyStr("/r.*")>>)))))
     @@ ("stripnone" :> One("stripprefix", EmptyDict))
     @@ ("add" :> One("addprefix", One("prefix", PyStr("/x"))))
     @@ ("add2" :> One("addprefix", One("prefix", PyStr("/y"))))
     @@ ("addslash" :> One("addprefix", One("prefix", PyStr("/"))))
     @@ ("addnone" :> One("addprefix", EmptyDict))
     @@ ("gz" :> One("compress", PyBool(TRUE)))
     @@ ("gzoff" :> One("compress", PyBool(FALSE)))
     @@ ("gzt" :> One("compress",
                      PyDict(("includedcontenttypes" :> PyList(<<PyStr("text/html"), PyStr("text/plain")>>))
                          @@ ("minresponsebodybytes" :> PyInt(1024)))))
     @@ ("hdr" :> One("headers",
                      PyDict(("customrequestheaders" :> One("x-req", PyStr("v1")))
                          @@ ("customresponseheaders" :>
                                PyDict(("x-res" :> PyStr("v2")) @@ ("x-trace" :> PyStr("v3")))))))
     @@ ("auth" :> One("basicauth", One("users", PyList(<<PyStr("u:p")>>)))))

\* the names the routers of the short chains give their middlewares: one has
\* a provider suffix, one is a name that http.middlewares does not hold
MiddlewareNames ==
    {"strip", "regex", "both", "add", "add2", "addnone", "addslash", "gzt", "hdr",
     "strip@file", "nope"}

\* the chains of at most n names
Chains(n) == UNION {[1..k -> MiddlewareNames] : k \in 0..n}

\* router rules: one, two and three alternatives; alternatives that are
\* neither PathPrefix nor Path; blanks around "||"; a newline at the end
Rules ==
    {"PathPrefix('/a')", "Path('/a.b')", "PathPrefix('/a')||Path('/b')",
     "Path('/b')||PathPrefix('/a')||PathPrefix('/c')", "Host('x')",
     "PathPrefix('/a') || PathPrefix('/c')", "PathPrefix('/a')||Host('x')",
     "Host('x')||PathPrefix('/a')", "PathPrefix('/a')\n"}

\* a router
Router(rule, chain) ==
    MkDict([rule |-> rule,
            middlewares |-> IF chain = <<>> THEN Absent
                            ELSE PyList([i \in DOMAIN chain |-> PyStr(chain[i])])])

\* a service with the one server a container's labels give
Server(host, ipaddress, port) ==
    One("loadbalancer",
        One("server", MkDict([host |-> host, ipaddress |-> ipaddress, port |-> port])))

\* a service with a pool of servers
Servers(urls) ==
    One("loadbalancer",
        One("servers", PyList([i \in DOMAIN urls |-> One("url", PyStr(urls[i]))])))

Services ==
    {Server(PyStr("h"), PyStr("10.0.0.1"), PyInt(9999)),
     Server(PyStr("h"), Absent, PyStr("8080")),
     Server(PyStr("h"), PyStr("10.0.0.1"), PyInt(0)),
     Servers(<<"http://h1:80", "http://h2:80">>),
     Servers(<<>>),
     One("loadbalancer", EmptyDict),
     EmptyDict}

\* the middlewares a tree defines: those its routers name, and one more
Defined(routers_) ==
    PyDict([name \in {n \in Keys(Middlewares) :
                        \/ n = "auth"
                        \/ \E r \in Keys(routers_) :
                            /\ "middlewares" \in Keys(routers_.m[r])
                            /\ \E i \in DOMAIN routers_.m[r].m["middlewares"].items :
                                Parts(routers_.m[r].m["middlewares"].items[i].s)[1] = n}
            |-> Middlewares.m[name]])

\* a tree with the routers and the services given
Tree(routers_, services_) ==
    One("http", PyDict(("routers" :> routers_) @@ ("services" :> services_)
                       @@ ("middlewares" :> Defined(routers_))))

RouterNames == <<"r1", "r2", "r3">>

\* chains that are longer: strips, headers, compression and prefixes together
LongChains ==
    {<<"strip", "gzt", "add", "hdr", "regex", "add2">>,
     <<"stripc", "nope", "add2", "strip@file", "add@docker", "addnone", "gz">>,
     <<"gzoff", "stripnone", "auth">>}

\* trees with one router: every chain, every rule with every service
ChainTrees ==
    {Tree(One("r1", Router(PyStr("PathPrefix('/a')"), chain)),
          One("r1", Server(PyStr("h"), PyStr("10.0.0.1"), PyInt(9999)))) :
        chain \in Chains(MaxChain) \cup LongChains}

RuleTrees ==
    {Tree(One("r1", Router(rule, chain)), One("r1", service)) :
        rule \in {PyStr(r) : r \in Rules} \cup {Absent},
        service \in Services,
        chain \in {<<>>, <<"strip", "hdr">>}}

\* trees with several routers of the same name as a service, a router
\* without a service and a service without a router
SeveralRouters(n) ==
    {Tree(PyDict([name \in {RouterNames[i] : i \in 1..n} |-> Router(PyStr(rules[name]), <<"add">>)]
                 @@ ("lonely" :> Router(PyStr("PathPrefix('/a')"), <<>>))),
          PyDict([name \in {RouterNames[i] : i \in 1..n} |-> services_[name]]
                 @@ ("spare" :> Server(PyStr("h"), Absent, PyInt(80))))) :
        rules \in [{RouterNames[i] : i \in 1..n} ->
                    {"PathPrefix('/a')||Path('/b')", "Host('x')"}],
        services_ \in [{RouterNames[i] : i \in 1..n} ->
                        {Server(PyStr("h"), PyStr("10.0.0.1"), PyInt(9999)),
                         Servers(<<"http://h1:80", "http://h2:80">>),
                         EmptyDict}]}

RouterTrees == UNION {SeveralRouters(n) : n \in 0..MaxRouters}

\* trees without an http section, with an empty one, and one that is not valid
OtherTrees == {EmptyDict, One("http", EmptyDict), One("http", PyStr("x")),
               One("api", EmptyDict)}

Dialects == {"nginx", "apache"}

EmitCalls ==
    {[dialect |-> d, traefik_file |-> t, ipaddr |-> FALSE] :
        d \in Dialects, t \in ChainTrees \cup RouterTrees \cup OtherTrees}
    \cup {[dialect |-> d, traefik_file |-> t, ipaddr |-> b] :
            d \in Dialects, t \in RuleTrees, b \in BOOLEAN}

\* the lines of the files given as baseconf to traefik2apache: a virtual
\* host inside a section, so that its closing tag is indented; one whose
\* lines are not indented; one whose closing tag is the first line; a file
\* without virtual host
BaseConfs ==
    {<< <<"<IfModule ssl_module>">>, <<"  ", "<VirtualHost *:443>">>,
        <<"    ", "ServerName x">>, <<"  ", "</VirtualHost>">>, <<"</IfModule>">> >>,
     << <<"<VirtualHost *:80>">>, <<"ServerName x">>, <<"</VirtualHost>">>, <<"# end">> >>,
     << <<"</VirtualHost>">>, <<"  ", "# end">> >>,
     << <<"# nothing">> >>}

\* calls of traefik2apache with a baseconf
BaseConfCalls ==
    {[dialect |-> "apache", traefik_file |-> t, ipaddr |-> FALSE, baseconf |-> b] :
        t \in SeveralRouters(1), b \in BaseConfs}

EmitInit ==
    /\ emitCall \in EmitCalls \cup BaseConfCalls
    /\ traefik_config = Pending
    /\ todo = {}
    /\ nginx_target = <<>>
    /\ apache_res = <<>>
    /\ emitOut = Pending

EmitIdle ==
    /\ emitCall = Idle
    /\ traefik_config = Idle
    /\ todo = {}
    /\ nginx_target = <<>>
    /\ apache_res = <<>>
    /\ emitOut = Idle

\* traefik_config.http.services or {} (and routers, and middlewares)
services(config) == Or(Attr(Attr(config, "http"), "services"), EmptyDict)
routers(config) == Or(Attr(Attr(config, "http"), "routers"), EmptyDict)
middlewares(config) == Or(Attr(Attr(config, "http"), "middlewares"), EmptyDict)

\* set(services.keys()) & set(routers.keys())
Locations(config) == Keys(services(config)) \cap Keys(routers(config))

\* what the emitter raises before its loop: the tree is not valid, or has
\* no http section
Unusable(config) ==
    IF IsErr(config) THEN config
    ELSE IF Attr(config, "http") = PyNone THEN Raise("Exception")
    ELSE Pending

\* [rule2locationkey(x) for x in rule.split("||")], the rule being
\* route.rule or ""
location_keys(route) ==
    [i \in DOMAIN SplitOr(Parts(Or(Attr(route, "rule"), PyStr("")).s)) |->
        rule2locationkey(SplitOr(Parts(Or(Attr(route, "rule"), PyStr("")).s))[i])]

\* x.split("@", 1)[0]
BeforeAt(x) ==
    IF FindPart(Parts(x), "@") = 0 THEN x
    ELSE Join(SubSeq(Parts(x), 1, FindPart(Parts(x), "@") - 1))

\* middlewares.get(name)
Get(config, name) ==
    IF name \in Keys(middlewares(config)) THEN middlewares(config).m[name] ELSE PyNone

\* the middlewares that the names of the router resolve to
middles(config, route) ==
    SelectSeq([i \in DOMAIN Or(Attr(route, "middlewares"), PyList(<<>>)).items |->
                  Get(config, BeforeAt(Attr(route, "middlewares").items[i].s))],
              LAMBDA i : i # PyNone)

\* the server block crossplane parses from the minimal configuration
ServerBlock ==
    <<Directive("listen", <<PyStr("80"), PyStr("default_server")>>),
      Directive("server_name", <<PyStr("localhost")>>)>>

\* the comment directive of a router
Comment(location, keys, backend_urls) ==
    PyDict(("directive" :> PyStr("#"))
        @@ ("comment" :>
              PyStr(" " \o location \o ": "
                    \o JoinWith([i \in DOMAIN keys |-> JoinWith(Strs(keys[i]), " ")], ", ")
                    \o " -> " \o JoinWith(Strs(backend_urls), ", ")))
        @@ ("line" :> PyInt(1)))

\* the upstream directive of a router with several backends
Upstream(location, backend_urls) ==
    PyDict(("directive" :> PyStr("upstream"))
        @@ ("args" :> PyList(<<PyStr(location)>>))
        @@ ("block" :> PyList([i \in DOMAIN backend_urls.items |->
                                  Directive("server", <<backend_urls.items[i]>>)])))

\* the location directives of a router, one for each key
LocationBlocks(keys, blk) ==
    [i \in DOMAIN keys |->
        PyDict(("directive" :> PyStr("location")) @@ ("args" :> keys[i])
               @@ ("block" :> PyList(blk)))]

\* blk of a router
Blk(backend, mdlconf) ==
    <<Directive("proxy_pass", <<PyStr("http://" \o backend)>>)>> \o middleware2nginx(mdlconf)

\* target after the turn of the loop of traefik2nginx for a router
NginxTurn(target_, location, keys, backend_urls, mdlconf) ==
    IF IsErr(backend_urls) THEN target_
    ELSE IF Len(backend_urls.items) > 1
    THEN Append(Append(target_, Comment(location, keys, backend_urls)),
                Upstream(location, backend_urls))
         \o LocationBlocks(keys, Blk(location, mdlconf))
    ELSE IF Len(backend_urls.items) = 0
    THEN Append(target_, Comment(location, keys, backend_urls))
    ELSE Append(target_, Comment(location, keys, backend_urls))
         \o LocationBlocks(keys, Blk(backend_urls.items[1].s, mdlconf))

\* what the turn raises: get_backend's exception, or backend_urls[0] of an
\* empty list
NginxRaised(backend_urls) ==
    IF IsErr(backend_urls) THEN backend_urls
    ELSE IF Len(backend_urls.items) = 0 THEN Raise("IndexError")
    ELSE Pending

\* traefik2nginx up to its loop
NginxStart ==
    /\ emitCall.dialect = "nginx"
    /\ traefik_config = Pending
    /\ emitOut = Pending
    /\ nginx_target' = ServerBlock
    /\ traefik_config' = model_validate("TraefikConfig", emitCall.traefik_file)
    /\ emitOut' = Unusable(traefik_config')
    /\ todo' = IF emitOut' = Pending THEN Locations(traefik_config') ELSE {}
    /\ UNCHANGED <<emitCall, apache_res>>

\* one turn of the loop of traefik2nginx: the set gives its names in any
\* order
NginxLocation ==
    /\ emitCall.dialect = "nginx"
    /\ emitOut = Pending
    /\ \E location \in todo :
        /\ todo' = todo \ {location}
        /\ nginx_target' = NginxTurn(nginx_target, location,
                               location_keys(routers(traefik_config).m[location]),
                               get_backend(services(traefik_config).m[location], emitCall.ipaddr),
                               middles(traefik_config, routers(traefik_config).m[location]))
        /\ emitOut' = NginxRaised(get_backend(services(traefik_config).m[location],
                                              emitCall.ipaddr))
    /\ UNCHANGED <<emitCall, traefik_config, apache_res>>

\* traefik2nginx after its loop: the server block is what the output holds
NginxReturn ==
    /\ emitCall.dialect = "nginx"
    /\ traefik_config # Pending
    /\ emitOut = Pending
    /\ todo = {}
    /\ emitOut' = PyList(nginx_target)
    /\ UNCHANGED <<emitCall, traefik_config, todo, nginx_target, apache_res>>

\* the lines of the virtual host that traefik2apache writes by default
ApacheBase ==
    << <<>>,
       <<"<VirtualHost *:", "80", ">">>,
       <<"    ", "ServerName ", "localhost">>,
       <<"    ", "ErrorLog /dev/stderr">>,
       <<"</VirtualHost>">> >>

\* apconf.splitlines(): the lines of the file baseconf, or of the virtual
\* host that traefik2apache writes by default
Apconf(call) == IF "baseconf" \in DOMAIN call THEN call.baseconf ELSE ApacheBase

\* backend_to of a router
BackendTo(location, backend_urls) ==
    IF Len(backend_urls.items) = 1 THEN "http://" \o backend_urls.items[1].s
    ELSE "balancer://" \o location

\* the <Proxy> lines of a router that has not exactly one backend
ProxyLines(location, backend_urls) ==
    IF Len(backend_urls.items) = 1 THEN <<>>
    ELSE << <<"<Proxy balancer://", location, ">">> >>
         \o [i \in DOMAIN backend_urls.items |->
                <<"  ", "BalancerMember http://", backend_urls.items[i].s>>]
         \o << <<"</Proxy>">> >>

\* the line that opens the section of a location key
Opening(loc) ==
    IF Len(loc.items) = 1 THEN << <<"<Location ", loc.items[1].s, ">">> >>
    ELSE IF loc.items[1].s = "="
    THEN << <<"<Location ~ \"^", re_escape(loc.items[2].s), "$\">">> >>
    ELSE <<>>

\* the lines of the loop over location_keys; loc[0] of an empty key raises
\* and ends the loop
RECURSIVE LocationLines(_, _, _)
LocationLines(keys, backend_to, mdlconf) ==
    IF keys = <<>> \/ Head(keys).items = <<>> THEN <<>>
    ELSE Opening(Head(keys))
         \o << <<"  ", "ProxyPass ", backend_to>>,
               <<"  ", "ProxyPassReverse ", backend_to>> >>
         \o [i \in DOMAIN mdlconf |-> <<"  ">> \o mdlconf[i]]
         \o << <<"</Location>">> >>
         \o LocationLines(Tail(keys), backend_to, mdlconf)

\* res after the turn of the loop of traefik2apache for a router
ApacheTurn(res, location, keys, backend_urls, mdlconf) ==
    IF IsErr(backend_urls) THEN res
    ELSE res \o ProxyLines(location, backend_urls)
         \o LocationLines(keys, BackendTo(location, backend_urls), middleware2apache(mdlconf))

\* what the turn raises: get_backend's exception, or loc[0] of an empty key
ApacheRaised(keys, backend_urls) ==
    IF IsErr(backend_urls) THEN backend_urls
    ELSE IF \E i \in DOMAIN keys : keys[i].items = <<>> THEN Raise("IndexError")
    ELSE Pending

\* traefik2apache up to its loop
ApacheStart ==
    /\ emitCall.dialect = "apache"
    /\ traefik_config = Pending
    /\ emitOut = Pending
    /\ traefik_config' = model_validate("TraefikConfig", emitCall.traefik_file)
    /\ emitOut' = Unusable(traefik_config')
    /\ todo' = IF emitOut' = Pending THEN Locations(traefik_config') ELSE {}
    /\ UNCHANGED <<emitCall, nginx_target, apache_res>>

\* one turn of the loop of traefik2apache
ApacheLocation ==
    /\ emitCall.dialect = "apache"
    /\ emitOut = Pending
    /\ \E location \in todo :
        /\ todo' = todo \ {location}
        /\ apache_res' = ApacheTurn(apache_res, location,
                                    location_keys(routers(traefik_config).m[location]),
                                    get_backend(services(traefik_config).m[location], emitCall.ipaddr),
                                    middles(traefik_config, routers(traefik_config).m[location]))
        /\ emitOut' = ApacheRaised(location_keys(routers(traefik_config).m[location]),
                                   get_backend(services(traefik_config).m[location],
                                               emitCall.ipaddr))
    /\ UNCHANGED <<emitCall, traefik_config, nginx_target>>

\* traefik2apache after its loop: the lines it prints
ApacheReturn ==
    /\ emitCall.dialect = "apache"
    /\ traefik_config # Pending
    /\ emitOut = Pending
    /\ todo = {}
    /\ emitOut' = PyList([i \in DOMAIN apache_insert2vf(Apconf(emitCall), apache_res) |->
                            PyStr(Join(apache_insert2vf(Apconf(emitCall), apache_res)[i]))])
    /\ UNCHANGED <<emitCall, traefik_config, todo, nginx_target, apache_res>>


(***************************************************************************)
(* api.py: the archive that DockerfileRoute.get_archive streams.  The      *)
(* buffer is the sequence of its blocks of 512 bytes: tarfile writes a     *)
(* member as the block of its header and the blocks of its content, and    *)
(* closes the archive with two empty blocks and the blocks that fill the   *)
(* record of 20 blocks.                                                    *)
(***************************************************************************)
\* io.BytesIO: the blocks it holds and its position
BytesIO(data, pos) == [data |-> data, pos |-> pos]
write(f, blocks) ==
    BytesIO(SubSeq(f.data, 1, f.pos) \o blocks
            \o SubSeq(f.data, f.pos + Len(blocks) + 1, Len(f.data)),
            f.pos + Len(blocks))
seek(f, pos) == BytesIO(f.data, pos)
tell(f) == f.pos
\* f.read(): what it returns, and the buffer after it
read(f) == SubSeq(f.data, f.pos + 1, Len(f.data))
AfterRead(f) == BytesIO(f.data, Len(f.data))

\* the blocks that tf.addfile writes for a member of size bytes
MemberBlocks(name, size) ==
    <<[of |-> name, part |-> "header", n |-> 0]>>
    \o [i \in 1..((size + 511) \div 512) |-> [of |-> name, part |-> "content", n |-> i]]

\* the blocks that tf.close writes at the offset of the archive
EndBlocks(offset) ==
    [i \in 1..(2 + ((20 - ((offset + 2) % 20)) % 20)) |->
        [of |-> "", part |-> "end", n |-> i]]

\* a flush that reads from where the buffer stands
Flush_here(f, osk_) ==
    IF osk_ # tell(f)
    THEN [ofp |-> AfterRead(f), yielded |-> <<read(f)>>]
    ELSE [ofp |-> f, yielded |-> <<>>]

\* if osk != ofp.tell(): ofp.seek(osk); yield ofp.read()
Flush(f, osk_) ==
    IF osk_ # tell(f)
    THEN [ofp |-> AfterRead(seek(f, osk_)), yielded |-> <<read(seek(f, osk_))>>]
    ELSE [ofp |-> f, yielded |-> <<>>]

\* osk when the generator is resumed: osk = ofp.tell() follows the yield of
\* the loop
Resumed(at, f, osk_) == IF at = "loop" THEN tell(f) ELSE osk_

\* the sizes of the items
Sizes == {0, 1, 512, 513}

\* the items of get_dockerfile with do_output: .dockerignore, the archives
\* of the added and of the modified files when there are some, the
\* Dockerfile
ArcNames ==
    {<<".dockerignore", "Dockerfile">>,
     <<".dockerignore", "added.tar.gz", "Dockerfile">>,
     <<".dockerignore", "modified.tar.gz", "Dockerfile">>,
     <<".dockerignore", "added.tar.gz", "modified.tar.gz", "Dockerfile">>}

ArcInit ==
    /\ arcItems \in UNION {{[i \in DOMAIN names |-> [name |-> names[i], size |-> sizes[i]]] :
                                sizes \in [DOMAIN names -> Sizes]} : names \in ArcNames}
    /\ arcSeen = 0
    /\ ofp = BytesIO(<<>>, 0)
    /\ tf = 0
    /\ osk = 0
    /\ chunks = <<>>
    /\ arcOut = Pending
    /\ arcAt = "start"

ArcIdle ==
    /\ arcItems = <<>>
    /\ arcSeen = 0
    /\ ofp = Idle
    /\ tf = 0
    /\ osk = 0
    /\ chunks = <<>>
    /\ arcOut = Idle
    /\ arcAt = "idle"

\* next() while members are left: the assignment of osk that follows the
\* yield the generator was suspended at, a turn of the loop that adds the
\* member, and the yield of what the buffer has got since the last yield
ArcAddfile ==
    /\ arcAt \in {"start", "loop"}
    /\ arcSeen < Len(arcItems)
    /\ LET blocks == MemberBlocks(arcItems[arcSeen + 1].name, arcItems[arcSeen + 1].size)
           flushed == Flush(write(ofp, blocks), Resumed(arcAt, ofp, osk))
       IN /\ tf' = tf + Len(blocks)
          /\ ofp' = flushed.ofp
          /\ chunks' = chunks \o flushed.yielded
          /\ arcAt' = IF flushed.yielded # <<>> THEN "loop" ELSE arcAt
    /\ osk' = Resumed(arcAt, ofp, osk)
    /\ arcSeen' = arcSeen + 1
    /\ UNCHANGED <<arcItems, arcOut>>

\* next() after the last member: the assignment of osk that follows the
\* yield of the loop, tf.close(), which counts the two empty blocks but not
\* the fill of the record, and the last yield, where the generator is
\* suspended; osk is not assigned after it.  Without anything to yield the
\* generator ends here.
ArcClose ==
    /\ arcAt \in {"start", "loop"}
    /\ arcSeen = Len(arcItems)
    /\ LET flushed == Flush(write(ofp, EndBlocks(tf)), Resumed(arcAt, ofp, osk))
       IN /\ tf' = tf + 2
          /\ ofp' = flushed.ofp
          /\ chunks' = chunks \o flushed.yielded
          /\ arcAt' = IF flushed.yielded # <<>> THEN "last" ELSE "end"
          /\ arcOut' = IF flushed.yielded # <<>> THEN arcOut ELSE PyNone
    /\ osk' = Resumed(arcAt, ofp, osk)
    /\ UNCHANGED <<arcItems, arcSeen>>

\* the consumer asks for a chunk after the last one: the generator ends
ArcReturn ==
    /\ arcAt = "last"
    /\ arcAt' = "end"
    /\ arcOut' = PyNone
    /\ UNCHANGED <<arcItems, arcSeen, ofp, tf, osk, chunks>>

\* the consumer closes the generator where it is suspended at a yield
ArcStop ==
    /\ arcAt \in {"loop", "last"}
    /\ arcAt' = "stopped"
    /\ arcOut' = Raise("GeneratorExit")
    /\ UNCHANGED <<arcItems, arcSeen, ofp, tf, osk, chunks>>


\* no operation in progress in any part of the program
AllIdle == TreeIdle /\ DumpIdle /\ ComposeIdle /\ DiffIdle /\ EmitIdle /\ ArcIdle

InitTree == TreeInit /\ DumpIdle /\ ComposeIdle /\ DiffIdle /\ EmitIdle /\ ArcIdle
NextTree ==
    \/ ApplyMerge /\ UNCHANGED <<DumpVars, ComposeVars, DiffVars, EmitVars, ArcVars>>
    \/ ApplySetByAddr /\ UNCHANGED <<DumpVars, ComposeVars, DiffVars, EmitVars, ArcVars>>
    \/ ApplyRoundTrip /\ UNCHANGED <<DumpVars, ComposeVars, DiffVars, EmitVars, ArcVars>>
    \/ ApplyValidate /\ UNCHANGED <<DumpVars, ComposeVars, DiffVars, EmitVars, ArcVars>>
SpecTree == InitTree /\ [][NextTree]_vars

InitDump == DumpInit /\ TreeIdle /\ ComposeIdle /\ DiffIdle /\ EmitIdle /\ ArcIdle
NextDump ==
    \/ DumpContainer /\ UNCHANGED <<TreeVars, ComposeVars, DiffVars, EmitVars, ArcVars>>
    \/ DumpReturn /\ UNCHANGED <<TreeVars, ComposeVars, DiffVars, EmitVars, ArcVars>>
SpecDump == InitDump /\ [][NextDump]_vars

InitCompose == ComposeInit /\ TreeIdle /\ DumpIdle /\ DiffIdle /\ EmitIdle /\ ArcIdle
NextCompose ==
    \/ ComposeContainer /\ UNCHANGED <<TreeVars, DumpVars, DiffVars, EmitVars, ArcVars>>
    \/ ComposeReturn /\ UNCHANGED <<TreeVars, DumpVars, DiffVars, EmitVars, ArcVars>>
SpecCompose == InitCompose /\ [][NextCompose]_vars

InitDiff == DiffInit /\ TreeIdle /\ DumpIdle /\ ComposeIdle /\ EmitIdle /\ ArcIdle
NextDiff ==
    \/ DiffEntry /\ UNCHANGED <<TreeVars, DumpVars, ComposeVars, EmitVars, ArcVars>>
    \/ DiffReturn /\ UNCHANGED <<TreeVars, DumpVars, ComposeVars, EmitVars, ArcVars>>
    \/ GetDockerfile /\ UNCHANGED <<TreeVars, DumpVars, ComposeVars, EmitVars, ArcVars>>
    \/ DockerfileNext /\ UNCHANGED <<TreeVars, DumpVars, ComposeVars, EmitVars, ArcVars>>
    \/ DockerfileReturn /\ UNCHANGED <<TreeVars, DumpVars, ComposeVars, EmitVars, ArcVars>>
    \/ DockerfileClose /\ UNCHANGED <<TreeVars, DumpVars, ComposeVars, EmitVars, ArcVars>>
    \/ ContainerChanges /\ UNCHANGED <<TreeVars, DumpVars, ComposeVars, EmitVars, ArcVars>>
SpecDiff == InitDiff /\ [][NextDiff]_vars

InitEmit == EmitInit /\ TreeIdle /\ DumpIdle /\ ComposeIdle /\ DiffIdle /\ ArcIdle
NextEmit ==
    \/ NginxStart /\ UNCHANGED <<TreeVars, DumpVars, ComposeVars, DiffVars, ArcVars>>
    \/ NginxLocation /\ UNCHANGED <<TreeVars, DumpVars, ComposeVars, DiffVars, ArcVars>>
    \/ NginxReturn /\ UNCHANGED <<TreeVars, DumpVars, ComposeVars, DiffVars, ArcVars>>
    \/ ApacheStart /\ UNCHANGED <<TreeVars, DumpVars, ComposeVars, DiffVars, ArcVars>>
    \/ ApacheLocation /\ UNCHANGED <<TreeVars, DumpVars, ComposeVars, DiffVars, ArcVars>>
    \/ ApacheReturn /\ UNCHANGED <<TreeVars, DumpVars, ComposeVars, DiffVars, ArcVars>>
SpecEmit == InitEmit /\ [][NextEmit]_vars

InitArc == ArcInit /\ TreeIdle /\ DumpIdle /\ ComposeIdle /\ DiffIdle /\ EmitIdle
NextArc ==
    \/ ArcAddfile /\ UNCHANGED <<TreeVars, DumpVars, ComposeVars, DiffVars, EmitVars>>
    \/ ArcClose /\ UNCHANGED <<TreeVars, DumpVars, ComposeVars, DiffVars, EmitVars>>
    \/ ArcReturn /\ UNCHANGED <<TreeVars, DumpVars, ComposeVars, DiffVars, EmitVars>>
    \/ ArcStop /\ UNCHANGED <<TreeVars, DumpVars, ComposeVars, DiffVars, EmitVars>>
SpecArc == InitArc /\ [][NextArc]_vars


(***************************************************************************)
(* Properties of the tree operations                                       *)
(***************************************************************************)
Fn(call) == IF "fn" \in DOMAIN call THEN call.fn ELSE "none"
Done(fn) == Fn(treeCall) = fn /\ treeOut # Pending

\* both raise, or neither does and the trees are equal
SameOutcome(x, y) == (IsErr(x) <=> IsErr(y)) /\ (~IsErr(x) => x = y)

\* C6: Model.merge is associative for all trees a, b, c, also when an
\* address holds a mapping in one operand and a scalar in another:
\* a.merge(b).merge(c) equals a.merge(b.merge(c)).
C6_MergeAssociative ==
    Done("merge") => treeOut.ab_c = treeOut.a_bc

Lead(op) == SplitDot(op.addr.toks)[1]

\* C7 as stated: two set-by-address operations whose addresses have
\* different leading segments give equal trees in either order.
C7_SetOrderIndependent ==
    (Done("setbyaddr") /\ Lead(treeCall.op1) # Lead(treeCall.op2)) =>
        SameOutcome(treeOut.r12, treeOut.r21)

\* C7 amended: two set-by-address operations whose addresses have leading
\* segments that differ after lowercasing give equal trees in either order
\* (and one order raises exactly when the other does).
C7_SetOrderIndependentLower ==
    (Done("setbyaddr") /\ Lower(Lead(treeCall.op1)) # Lower(Lead(treeCall.op2))) =>
        SameOutcome(treeOut.r12, treeOut.r21)

\* two operations on different sections, each of which changed the tree
C7_Witness ==
    /\ Done("setbyaddr")
    /\ Lower(Lead(treeCall.op1)) # Lower(Lead(treeCall.op2))
    /\ ~IsErr(treeOut.r12)
    /\ treeOut.r1 # treeCall.t
    /\ treeOut.r12 # treeOut.r1
    /\ treeOut.r12 = treeOut.r21

\* no extra (undeclared) field of the tree, at any class of it, is None
RECURSIVE NoNullExtra(_, _)
NoNullExtra(cls, t) ==
    LET F == Fields(cls)
        Sub(T, v) ==
            CASE T.t = "model" -> NoNullExtra(T.cls, v)
              [] T.t = "dictof" -> \A k \in Keys(v) : NoNullExtra(T.cls, v.m[k])
              [] T.t = "listof" -> \A i \in DOMAIN v.items : NoNullExtra(T.cls, v.items[i])
              [] T.t = "orbool" /\ T.alt.t = "model" /\ IsDict(v) -> NoNullExtra(T.alt.cls, v)
              [] OTHER -> TRUE
    IN \A k \in Keys(t) :
          IF k \in DOMAIN F THEN Sub(F[k], t.m[k]) ELSE t.m[k] # PyNone

\* C8 as stated: for any tree T, validating the serialization of T gives a
\* tree equal to T, and serializing that tree gives the same serialization.
C8_RoundTrip ==
    Done("roundtrip") =>
        /\ treeOut.t2 = treeCall.t
        /\ treeOut.d2 = treeOut.d1

\* C8 amended: for any tree T that holds no extra (undeclared) field whose
\* value is None, validating the serialization of T gives a tree equal to
\* T, and serializing that tree gives the same serialization.
C8_RoundTripNoNullExtra ==
    (Done("roundtrip") /\ NoNullExtra("TraefikConfig", treeCall.t)) =>
        /\ treeOut.t2 = treeCall.t
        /\ treeOut.d2 = treeOut.d1

\* a tree with an api section, a router and an extra field, round-tripped
C8_Witness ==
    /\ Done("roundtrip")
    /\ NoNullExtra("TraefikConfig", treeCall.t)
    /\ {"api", "http", "foo"} \subseteq Keys(treeCall.t)
    /\ treeOut.t2 = treeCall.t

\* every key of every mapping of the value is in lower case, the mappings in
\* lists too
RECURSIVE KeysLower(_)
KeysLower(value) ==
    IF IsDict(value)
    THEN \A k \in Keys(value) : Lower(k) = k /\ KeysLower(value.m[k])
    ELSE IF IsList(value)
    THEN \A i \in DOMAIN value.items : KeysLower(value.items[i])
    ELSE TRUE

\* C23 as stated: after validation every key of every mapping of the tree,
\* at every depth, is in lower case, those of mappings in lists and of free
\* mappings too; two inputs that differ only in the case of their keys
\* validate to equal trees.
C23_AllKeysLower ==
    Done("validate") =>
        /\ ~IsErr(treeOut.rt) => KeysLower(treeOut.rt)
        /\ SameOutcome(treeOut.rt, treeOut.ru)

(***************************************************************************)
(* Properties of the leaf conversions of set-by-address                    *)
(***************************************************************************)
Segs(op) == [i \in DOMAIN SplitDot(op.addr.toks) |-> Lower(SplitDot(op.addr.toks)[i])]

\* the tree holds a value at the address
RECURSIVE HasAt(_, _)
HasAt(t, segs) ==
    \/ segs = <<>>
    \/ /\ IsDict(t)
       /\ Head(segs) \in Keys(t)
       /\ HasAt(t.m[Head(segs)], Tail(segs))

\* the value the tree holds at the address
RECURSIVE At(_, _)
At(t, segs) == IF segs = <<>> THEN t ELSE At(t.m[Head(segs)], Tail(segs))

\* the declared type of the field at the address; TAny where none is declared
RECURSIVE DeclaredAt(_, _)
DeclaredAt(T, segs) ==
    IF segs = <<>> THEN T
    ELSE CASE T.t = "model" ->
                 IF Head(segs) \in DOMAIN Fields(T.cls)
                 THEN DeclaredAt(Fields(T.cls)[Head(segs)], Tail(segs))
                 ELSE TAny
           [] T.t = "dictof" -> DeclaredAt(TModel(T.cls), Tail(segs))
           [] T.t = "orbool" -> DeclaredAt(T.alt, segs)
           [] OTHER -> TAny

Declared(op) == DeclaredAt(TModel("TraefikConfig"), Segs(op))

IsPrefix(p, q) == Len(p) < Len(q) /\ SubSeq(q, 1, Len(p)) = p

IsTrue(op) == op.value = PyStr("true")
IsFalse(op) == op.value = PyStr("false")

\* C11: set-by-address with the leaf "true" stores an empty mapping at the
\* address, whatever the address: the call does not raise and the tree then
\* holds a mapping there, the one it held before or the empty one.  A
\* set-by-address below that address gives the same tree whether it comes
\* before or after, and after api = "true" and api.insecure = "true" in
\* either order the tree holds insecure = {} under api, next to what api
\* held before.
C11_TruePresence ==
    (Done("setbyaddr") /\ IsTrue(treeCall.op1)) =>
        LET t == treeCall.t
            a == Segs(treeCall.op1)
            b == Segs(treeCall.op2)
        IN /\ ~IsErr(treeOut.r1)
           /\ HasAt(treeOut.r1, a)
           /\ At(treeOut.r1, a) =
                 (IF HasAt(t, a) /\ IsDict(At(t, a)) THEN At(t, a) ELSE EmptyDict)
           /\ IsPrefix(a, b) => SameOutcome(treeOut.r12, treeOut.r21)
           /\ (a = <<"api">> /\ b = <<"api", "insecure">> /\ IsTrue(treeCall.op2)) =>
                 /\ ~IsErr(treeOut.r12)
                 /\ treeOut.r12 = treeOut.r21
                 /\ At(treeOut.r12, a) =
                       DeepMergeExtend(IF HasAt(t, a) THEN At(t, a) ELSE EmptyDict,
                                       One("insecure", EmptyDict))

DumpDone == dumpOut \notin {Pending, Idle}

\* the sidecars and the enabled containers among those listed
IsSidecar(ctn) == ctn.tags # <<>> /\ HasTraefik(ctn.tags[1])
GatedIn(ctn) ==
    \E i \in DOMAIN ctn.labels :
        ctn.labels[i] = Label(<<"traefik", ".", "enable">>, "true")
LastOf(ctns, Test(_)) ==
    IF \E i \in DOMAIN ctns : Test(ctns[i])
    THEN ctns[CHOOSE i \in DOMAIN ctns :
                 Test(ctns[i]) /\ \A j \in (i + 1)..Len(ctns) : ~Test(ctns[j])]
    ELSE [labels |-> <<>>, args |-> <<>>, envs |-> <<>>]

\* the values that the sources give to the address api.x: the labels of the
\* enabled containers, the arguments and the environment of the sidecar
ValuesOf(entries, prefix) ==
    {Join(SubSeq(e, Len(prefix) + 1, Len(e))) : e \in {x \in entries : StartsWith(x, prefix)}}
LabelApiX ==
    {l.v : l \in {x \in UNION {{c.labels[i] : i \in DOMAIN c.labels} :
                                  c \in {containers[i] : i \in DOMAIN containers}
                                        \cap {c \in Containers : GatedIn(c)}} :
                     x.k = <<"traefik", ".", "api", ".", "x">>}}
ArgApiX ==
    LET side == LastOf(containers, IsSidecar)
    IN ValuesOf({side.args[i] : i \in DOMAIN side.args}, <<"--", "api", ".", "x", "=">>)
EnvApiX ==
    LET side == LastOf(containers, IsSidecar)
    IN ValuesOf({side.envs[i] : i \in DOMAIN side.envs},
                <<"TRAEFIK", "_", "API", "_", "X", "=">>)

\* the value at api.x of a dumped tree, PyNone when it has none
ApiX(tree) ==
    IF IsDict(tree) /\ "api" \in Keys(tree) /\ IsDict(tree.m["api"])
       /\ "x" \in Keys(tree.m["api"])
    THEN tree.m["api"].m["x"]
    ELSE PyNone

\* C1: the tree that traefik_dump returns is the merge of the source trees with
\* precedence labels > args > envs > file: api.x holds the value that the
\* labels give it, else the one of the arguments, else the one of the
\* environment of the sidecar (every container having an image tag)
C1_DumpPrecedence ==
    (DumpDone /\ \A i \in DOMAIN containers : containers[i].tags # <<>>) =>
        /\ LabelApiX # {} => \E v \in LabelApiX : ApiX(dumpOut) = PyStr(v)
        /\ (LabelApiX = {} /\ ArgApiX # {}) => \E v \in ArgApiX : ApiX(dumpOut) = PyStr(v)
        /\ (LabelApiX = {} /\ ArgApiX = {} /\ EnvApiX # {}) =>
               \E v \in EnvApiX : ApiX(dumpOut) = PyStr(v)

\* the value at http.services.s.loadbalancer.server of a dumped tree
ServerOf(tree) ==
    IF IsDict(tree) /\ "http" \in Keys(tree)
    THEN tree.m["http"].m["services"].m["s"].m["loadbalancer"].m["server"]
    ELSE PyNone

\* C2: for a single enabled container, no sidecar, with the label
\* traefik.http.services.s.loadbalancer.server.port=p the returned tree holds at
\* http.services.s.loadbalancer.server the port p as an integer, the container's
\* name as host and its first network address ("" when it has none) as ipaddress
C2_ServicePortCompanions ==
    (DumpDone /\ Len(containers) = 1 /\ GatedIn(containers[1])
        /\ containers[1].tags # <<>> /\ ~IsSidecar(containers[1])
        /\ \E j \in DOMAIN containers[1].labels :
              /\ containers[1].labels[j].k = PortKey("s")
              /\ containers[1].labels[j].v \in IntStrings) =>
        \E j \in DOMAIN containers[1].labels :
           /\ containers[1].labels[j].k = PortKey("s")
           /\ ServerOf(dumpOut) =
                 MkDict([port |-> PyInt(ParseInt(containers[1].labels[j].v)),
                         host |-> PyStr(containers[1].name),
                         ipaddress |-> PyStr(IF containers[1].addrs = <<>> THEN ""
                                             ELSE containers[1].addrs[1])])

\* the labels that may contribute: none of a container that is not enabled,
\* those under "traefik." of an enabled one
Consumed(ctn) ==
    LET Under(l) == StartsWith(l.k, <<"traefik", ".">>)
    IN [ctn EXCEPT !.labels = IF GatedIn(ctn) THEN SelectSeq(ctn.labels, Under) ELSE <<>>]

\* a container that is not enabled and carries a traefik.* label
GatedOut(ctn) ==
    /\ ~GatedIn(ctn)
    /\ \E i \in DOMAIN ctn.labels : StartsWith(ctn.labels[i].k, <<"traefik", ".", "api">>)
                                    \/ ctn.labels[i].k = PortKey("s")

\* C3: what traefik_dump returns is what it returns for the same containers
\* without the labels of the containers whose traefik.enable is absent or not
\* exactly "true", and without the labels outside "traefik." of the others
C3_LabelGate ==
    DumpDone =>
        dumpOut = traefik_dump([i \in DOMAIN containers |-> Consumed(containers[i])])

\* a dump returned a tree for containers of which one is not enabled and
\* carries traefik.* labels, and another is enabled and carries other labels
C3_Witness ==
    /\ DumpDone
    /\ ~IsErr(dumpOut)
    /\ \E i \in DOMAIN containers : GatedOut(containers[i])
    /\ \E i \in DOMAIN containers :
          /\ GatedIn(containers[i])
          /\ Consumed(containers[i]) # containers[i]

\* extraction fails for the container: traefik_dump of it alone raises
Fails(ctn) == IsErr(traefik_dump(<<ctn>>))

\* the containers of the inventory whose extraction does not fail
Extractable(ctns) == SelectSeq(ctns, LAMBDA ctn : ~Fails(ctn))

\* C13 as stated: traefik_dump skips a container whose extraction fails and
\* returns the tree of the contributions of the other containers.
C13_BestEffort ==
    DumpDone => dumpOut = traefik_dump(Extractable(containers))

(***************************************************************************)
(* Properties of compose                                                   *)
(***************************************************************************)
\* the KEY=VALUE entries of an environment list, split once on the first "="
EnvEntries(env) ==
    {<<Join(BeforeEq(env[i])), AfterEq(env[i])>> :
        i \in {n \in DOMAIN env : FindPart(env[n], "=") # 0}}

\* those entries that no later entry with the same key follows
LastEntries(env) ==
    {<<Join(BeforeEq(env[i])), AfterEq(env[i])>> :
        i \in {n \in DOMAIN env :
                 /\ FindPart(env[n], "=") # 0
                 /\ \A m \in (n + 1)..Len(env) :
                       \/ FindPart(env[m], "=") = 0
                       \/ BeforeEq(env[m]) # BeforeEq(env[n])}}

LabelsOf(service) == IF "labels" \in DOMAIN service THEN service["labels"] ELSE NoEntries
EnvironmentOf(service) ==
    IF "environment" \in DOMAIN service THEN service["environment"] ELSE NoEntries

SameInImage(ctn, k) == k \in DOMAIN ctn.imglabel /\ ctn.imglabel[k] = ctn.Labels[k]

\* the labels of a service against the labels of the container and its image
LabelsFiltered(ctn, service) ==
    /\ \A k \in DOMAIN LabelsOf(service) :
          ~(k \in DOMAIN ctn.imglabel /\ ctn.imglabel[k] = LabelsOf(service)[k])
    /\ \A k \in DOMAIN LabelsOf(service) : ~StartsWith(k, ComposeKey(<<>>))
    /\ \A k \in DOMAIN ctn.Labels :
          (~StartsWith(k, ComposeKey(<<>>)) /\ ~SameInImage(ctn, k)) =>
              (k \in DOMAIN LabelsOf(service) /\ LabelsOf(service)[k] = ctn.Labels[k])

\* the environment of a service against the entries of the container and of
\* its image
EnvFiltered(service, ctnEntries, imgEntries) ==
    /\ \A k \in DOMAIN EnvironmentOf(service) :
          <<k, EnvironmentOf(service)[k]>> \notin imgEntries
    /\ \A entry \in ctnEntries \ imgEntries :
          /\ entry[1] \in DOMAIN EnvironmentOf(service)
          /\ EnvironmentOf(service)[entry[1]] = entry[2]

\* the step of the loop builds the service of the container it visits: the
\* container is not skipped and the step does not raise
Emits ==
    /\ composed' = composed + 1
    /\ ~Skipped(attrs[composed + 1].Labels, composeArgs.all, composeArgs.project)
    /\ composeOut' = Pending

\* C4 as stated: the service that an iteration of compose emits holds no label
\* and no environment entry identical to one of the image, and holds every
\* other label (com.docker.compose.* apart) and KEY=VALUE entry of the container
C4_ImageIdentityDropped ==
    [][Emits =>
          /\ LabelsFiltered(attrs[composed + 1], svc')
          /\ EnvFiltered(svc', EnvEntries(attrs[composed + 1].Env),
                         EnvEntries(attrs[composed + 1].imgenv))]_vars

\* C4, the environment lists read as mappings in which the last entry of a key
\* replaces the earlier ones: the service that an iteration of compose emits
\* holds no label and no environment entry identical to one of the image, and
\* holds every other label (com.docker.compose.* apart) and entry of the container
C4_ImageIdentityDroppedLastEntry ==
    [][Emits =>
          /\ LabelsFiltered(attrs[composed + 1], svc')
          /\ EnvFiltered(svc', LastEntries(attrs[composed + 1].Env),
                         LastEntries(attrs[composed + 1].imgenv))]_vars

\* a service was emitted with a label and an environment entry kept, a label
\* and an entry of the image dropped, and the compose labels dropped
C4_Witness ==
    /\ composed > 0
    /\ svc # Idle
    /\ attrs[composed].imglabel = ImageLabels
    /\ DOMAIN LabelsOf(svc) = {<<"key2">>, <<"image-label2">>}
    /\ ComposeKey(<<"project">>) \in DOMAIN attrs[composed].Labels
    /\ <<"A", "1">> \in EnvEntries(attrs[composed].Env) \cap EnvEntries(attrs[composed].imgenv)
    /\ DOMAIN EnvironmentOf(svc) = {"B"}

\* the container that the step of the loop visits
Visited == attrs[composed + 1]

\* proj of a container: "" when it has no project label
Project(ctn) ==
    IF ComposeKey(<<"project">>) \in DOMAIN ctn.Labels
    THEN ctn.Labels[ComposeKey(<<"project">>)]
    ELSE ""

\* the step of the loop adds no service
NoService == svcs' = svcs /\ svc' = svc

\* the step of the loop adds the service of the container it visits
OneService ==
    /\ svc' # Idle
    /\ ServiceName(Visited) \in DOMAIN svcs'
    /\ svcs'[ServiceName(Visited)] = svc'
    /\ \A name \in DOMAIN svcs' \ {ServiceName(Visited)} :
          name \in DOMAIN svcs /\ svcs'[name] = svcs[name]

\* C17 as stated: with all=false a container without a project label is
\* skipped; a container whose project does not match the project glob is
\* skipped, whatever the value of all, so that no service of a non-matching
\* project is in the output.
C17_ProjectFilter ==
    [][composed' # composed =>
          /\ (~composeArgs.all /\ Project(Visited) = "") => NoService
          /\ (Project(Visited) # "" /\ ~fnmatch(Project(Visited), composeArgs.project))
                => NoService]_vars

\* C17 amended: the project filter works with all=false only.  With
\* all=false a container without a project label is skipped and a container
\* whose project does not match the project glob is skipped; the filter
\* skips no other container, and with all=true it skips none: a container
\* of a non-matching project is then processed as any other (its service is
\* added, unless the processing raises).
C17_ProjectFilterUnlessAll ==
    [][composed' # composed =>
          IF /\ ~composeArgs.all
             /\ \/ Project(Visited) = ""
                \/ ~fnmatch(Project(Visited), composeArgs.project)
          THEN NoService
          ELSE OneService \/ IsErr(composeOut')]_vars

\* a container of proj2 and one of proj1 under the glob proj1, all=false:
\* the document holds the service of the second only
C17_Witness ==
    /\ composeOut \notin {Pending, Idle}
    /\ ~composeArgs.all
    /\ composeArgs.project = "proj1"
    /\ Len(attrs) = 2
    /\ Project(attrs[1]) = "proj2"
    /\ Project(attrs[2]) = "proj1"
    /\ DOMAIN composeOut = {"services"}
    /\ DOMAIN composeOut["services"] = {ServiceName(attrs[2])}

\* the port of the container in a key "port/protocol" of the port bindings,
\* and the protocol
ContainerPort(k) == Join(SubSeq(k, 1, FindPart(k, "/") - 1))
Protocol(k) == Join(SubSeq(k, FindPart(k, "/") + 1, Len(k)))

\* the binding names a host address (the engine writes "" for none)
HasHostIp(binding) == "HostIp" \in DOMAIN binding /\ binding["HostIp"] # ""

\* the long form of a port: the four keys, the target an integer
LongForm(entry, k) ==
    /\ entry.kind = "dict"
    /\ Keys(entry) = {"target", "published", "protocol", "mode"}
    /\ entry.m["target"] = PyInt(ParseInt(ContainerPort(k)))
    /\ entry.m["protocol"] = PyStr(Protocol(k))
    /\ entry.m["mode"] = PyStr("host")

\* C18: the ports of a service hold one entry for each container port of
\* the port bindings, in their order: for a tcp port with one binding the
\* text "host:container", or "ip:host:container" when the binding has a
\* host address; for any other port (another protocol, or several bindings)
\* the long form {target, published, protocol, mode: "host"} with the
\* integer container port as target.
C18_PortEntries ==
    [][(Emits /\ Visited.PortBindings # <<>>) =>
          LET pmap == Visited.PortBindings
              ports == svc'["ports"]
          IN /\ ports.kind = "list"
             /\ Len(ports.items) = Len(pmap)
             /\ \A i \in DOMAIN pmap :
                   IF Protocol(pmap[i].k) = "tcp" /\ Len(pmap[i].v) = 1
                   THEN IF HasHostIp(pmap[i].v[1])
                        THEN ports.items[i] =
                                PyStr(pmap[i].v[1]["HostIp"] \o ":" \o pmap[i].v[1]["HostPort"]
                                      \o ":" \o ContainerPort(pmap[i].k))
                        ELSE ports.items[i] =
                                PyStr(pmap[i].v[1]["HostPort"] \o ":" \o ContainerPort(pmap[i].k))
                   ELSE LongForm(ports.items[i], pmap[i].k)]_vars

\* a service of a container with a tcp port bound once to a host address
\* and a udp port: its ports are a text with the address and a long form
C18_Witness ==
    /\ composed = 1
    /\ svc # Idle
    /\ attrs[1].PortBindings =
          <<[k |-> <<"8080", "/", "tcp">>, v |-> <<[HostIp |-> "127.0.0.1", HostPort |-> "9999"]>>],
            [k |-> <<"80", "/", "udp">>, v |-> <<[HostPort |-> "8080"]>>]>>
    /\ svc["ports"].items[1] = PyStr("127.0.0.1:9999:8080")
    /\ svc["ports"].items[2].kind = "dict"

\* the container has a project working directory, and the source of the bind
\* lies under it
UnderWorkingDir(v, labels) ==
    /\ ComposeKey(<<"project", ".", "working", "_", "dir">>) \in DOMAIN labels
    /\ is_relative_to(Path(v[1]), Wdir(labels))

\* the entry that C19 states for a bind
StatedEntry(i, labels) ==
    (IF UnderWorkingDir(SplitBind(i), labels)
     THEN "./" \o PathStr(relative_to(Path(SplitBind(i)[1]), Wdir(labels)))
     ELSE Join(SplitBind(i)[1]))
    \o ":" \o Join(SplitBind(i)[2])
    \o (IF Len(SplitBind(i)) = 2 \/ Join(SplitBind(i)[3]) = "rw" THEN ""
        ELSE ":" \o Join(SplitBind(i)[3]))

\* the entries that C19 states for the binds of a container
RECURSIVE StatedEntries(_, _, _)
StatedEntries(binds, imgvol, labels) ==
    IF binds = <<>> THEN <<>>
    ELSE (IF Join(SplitBind(Head(binds))[2]) \in imgvol THEN <<>>
          ELSE <<StatedEntry(Head(binds), labels)>>)
         \o StatedEntries(Tail(binds), imgvol, labels)

\* svc["volumes"], empty when the service has none
VolumesOf(service) == IF "volumes" \in DOMAIN service THEN service["volumes"] ELSE <<>>

\* C19 as stated: the volumes of the service of a container begin with one
\* entry for each of its binds whose destination is no volume of the image,
\* in the order of the binds, and the entries of the mounts follow; the
\* source is "./<relative path>" when it lies under the working directory
\* of the project and is the source of the bind otherwise; the entry ends
\* with the mode unless the bind has none or has "rw".
C19_BindEntries ==
    [][(composed' # composed
        /\ ~Skipped(Visited.Labels, composeArgs.all, composeArgs.project)) =>
          /\ Emits
          /\ LET stated == StatedEntries(Visited.Binds, Visited.imgvol, Visited.Labels)
             IN /\ Len(VolumesOf(svc')) >= Len(stated)
                /\ SubSeq(VolumesOf(svc'), 1, Len(stated)) = stated
                /\ Len(VolumesOf(svc')) - Len(stated) <= Len(Visited.Mounts)]_vars

(***************************************************************************)
(* Properties of get_diff                                                  *)
(***************************************************************************)
DiffDone == diffOut \notin {Pending, Idle}

\* no element of the set has a proper ancestor in the set
AncestorFree(set) == \A p \in set, target \in set : ~IsParent(p, target)

\* the diff lists no path before one of its ancestors
ParentsFirst(diff) ==
    \A i \in DOMAIN diff, j \in DOMAIN diff :
        i < j => ~IsParent(diff[j].Path, diff[i].Path)

\* C5 as stated: whatever the order of the diff entries, each of the sets
\* deleted, added and modified that get_diff returns is ancestor-free
C5_AncestorFree ==
    DiffDone =>
        /\ AncestorFree(diffOut.deleted)
        /\ AncestorFree(diffOut.added)
        /\ AncestorFree(diffOut.modified)

\* C5, for a diff that lists every path after its ancestors: each of the sets
\* deleted, added and modified that get_diff returns is ancestor-free
C5_AncestorFreeParentsFirst ==
    (DiffDone /\ ParentsFirst(diffCall.diff)) =>
        /\ AncestorFree(diffOut.deleted)
        /\ AncestorFree(diffOut.added)
        /\ AncestorFree(diffOut.modified)

\* get_diff returned for a diff that lists a deleted directory and then a
\* deleted path below it, none ignored, and kept the directory only
C5_Witness ==
    /\ DiffDone
    /\ ParentsFirst(diffCall.diff)
    /\ diffCall.ignore = <<>>
    /\ \E i \in DOMAIN diffCall.diff, j \in DOMAIN diffCall.diff :
          /\ i < j
          /\ diffCall.diff[i] = [Path |-> A, Kind |-> 2]
          /\ diffCall.diff[j] = [Path |-> AB, Kind |-> 2]
    /\ diffOut.deleted = {A}

\* get_dockerfile has built the Dockerfile and yielded it
DockerfileDone == dockerfile # <<>>

\* the labels of the container that are no com.docker.compose.* labels and
\* whose value is not the value the image has for them
RECURSIVE OwnLabels(_, _)
OwnLabels(ctn_labels, image_labels) ==
    IF ctn_labels = <<>> THEN <<>>
    ELSE (IF \/ StartsWith(Head(ctn_labels).k, ComposeKey(<<>>))
             \/ /\ Head(ctn_labels).k \in DOMAIN image_labels
                /\ image_labels[Head(ctn_labels).k] = Head(ctn_labels).v
          THEN <<>> ELSE <<Head(ctn_labels)>>)
         \o OwnLabels(Tail(ctn_labels), image_labels)

\* C20: the lines of the Dockerfile are, in this order: FROM and the image
\* of the container; one RUN rm -rf with the deleted paths sorted, iff some
\* path is deleted; ADD added.tar.gz / iff some path is added; ADD
\* modified.tar.gz / iff some path is modified; one RUN ln -sf <target>
\* <path> for each link, sorted by path; and, only with labels on, one LABEL
\* line for each label of the container that is no com.docker.compose.*
\* label and whose value differs from the image's.  The paths, the targets
\* and the labels are written as the shell quotes them.  The item named
\* Dockerfile holds these lines, each ended by a newline.
C20_DockerfileLines ==
    DockerfileDone =>
        LET rm == IF diffOut.deleted = {} THEN 0 ELSE 1
            add == IF diffOut.added = {} THEN 0 ELSE 1
            mod == IF diffOut.modified = {} THEN 0 ELSE 1
            links == Sorted(DOMAIN diffOut.link)
            own == IF dockerCall.labels
                   THEN OwnLabels(dockerCall.ctn_labels, dockerCall.image_labels)
                   ELSE <<>>
        IN /\ Len(dockerfile) = 1 + rm + add + mod + Len(links) + Len(own)
           /\ dockerfile[1] = "FROM " \o dockerCall.from_image
           /\ rm = 1 =>
                dockerfile[2] =
                    "RUN rm -rf "
                    \o JoinWith([i \in DOMAIN Sorted(diffOut.deleted) |->
                                    quote(<<PathText(Sorted(diffOut.deleted)[i])>>)], " ")
           /\ add = 1 => dockerfile[1 + rm + add] = "ADD added.tar.gz /"
           /\ mod = 1 => dockerfile[1 + rm + add + mod] = "ADD modified.tar.gz /"
           /\ \A i \in DOMAIN links :
                dockerfile[1 + rm + add + mod + i] =
                    "RUN ln -sf " \o quote(<<diffOut.link[links[i]]>>)
                    \o " " \o quote(<<PathText(links[i])>>)
           /\ \A i \in DOMAIN own :
                dockerfile[1 + rm + add + mod + Len(links) + i] =
                    "LABEL " \o quote(own[i].k) \o "=" \o quote(own[i].v)
           /\ items[Len(items)] =
                Item("Dockerfile", PyStr(JoinWith(dockerfile \o <<"">>, "\n")))

\* a container with an added directory, a modified file and a link, labels
\* on: both ADD lines, the link, and the two labels that are the container's
\* own, one of them quoted
C20_Witness ==
    /\ DockerfileDone
    /\ dockerCall.labels
    /\ diffOut.added = {A}
    /\ diffOut.modified = {ABC}
    /\ dockerfile = <<"FROM docker-image:latest", "ADD added.tar.gz /",
                      "ADD modified.tar.gz /", "RUN ln -sf t /d",
                      "LABEL ilabel2='new value'", "LABEL label1=value1">>

(***************************************************************************)
(* Properties of the emitters                                              *)
(***************************************************************************)
\* what a turn of the loop of an emitter has added to the server block, and
\* to the lines of the Apache locations
AddedDirectives == SubSeq(nginx_target', Len(nginx_target) + 1, Len(nginx_target'))
AddedLines == SubSeq(apache_res', Len(apache_res) + 1, Len(apache_res'))

\* the location keys a rule parses to, in the order of its alternatives:
\* [prefix] for a PathPrefix, ["=", path] for a Path
ParsedKeys(route) == SelectSeq(location_keys(route), LAMBDA k : k.items # <<>>)

\* the args of the location directives among the directives
LocationArgs(directives) ==
    [i \in DOMAIN SelectSeq(directives, LAMBDA d : d.m["directive"].s = "location") |->
        SelectSeq(directives, LAMBDA d : d.m["directive"].s = "location")[i].m["args"]]

IsOpening(line) == line # <<>> /\ line[1] \in {"<Location ", "<Location ~ \"^"}
IsClosing(line) == line = <<"</Location>">>

\* the opening and the closing lines among the lines, as texts
Tags(lines) ==
    [i \in DOMAIN SelectSeq(lines, LAMBDA l : IsOpening(l) \/ IsClosing(l)) |->
        Join(SelectSeq(lines, LAMBDA l : IsOpening(l) \/ IsClosing(l))[i])]

\* the line that opens the <Location> section of a key
OpeningText(key) ==
    IF Len(key.items) = 1 THEN "<Location " \o key.items[1].s \o ">"
    ELSE "<Location ~ \"^" \o re_escape(key.items[2].s) \o "$\">"

\* one section for each key, each opened and closed
SectionTags(keys) ==
    [i \in 1..(2 * Len(keys)) |->
        IF i % 2 = 1 THEN OpeningText(keys[(i + 1) \div 2]) ELSE "</Location>"]

\* every alternative of the rule of the router is a PathPrefix or a Path
AllParse(route) ==
    \A i \in DOMAIN location_keys(route) : location_keys(route)[i].items # <<>>

\* the service names a backend: a pool of servers, or a server with a port
NamesBackend(service) ==
    /\ Attr(service, "loadbalancer") # PyNone
    /\ \/ Truthy(Attr(Attr(service, "loadbalancer"), "servers"))
       \/ /\ Attr(Attr(service, "loadbalancer"), "server") # PyNone
          /\ Truthy(Attr(Attr(Attr(service, "loadbalancer"), "server"), "port"))

\* C9 as stated, for the routers of which nothing is to be omitted (every
\* alternative of the rule parses, the same-named service names a backend):
\* for every router that has a same-named service and whose rule parses to
\* N location keys, the nginx emitter adds exactly N location blocks for
\* that router, in the order of the rule's alternatives, and the Apache
\* emitter adds exactly N <Location> sections, each opened and closed, in
\* the same order.  It is checked at the turn of the loop that visits the
\* router.
C9_LocationPerKey ==
    [][\A location \in todo \ todo' :
          (/\ AllParse(routers(traefik_config).m[location])
           /\ NamesBackend(services(traefik_config).m[location])) =>
              /\ emitCall.dialect = "nginx" =>
                    LocationArgs(AddedDirectives)
                        = ParsedKeys(routers(traefik_config).m[location])
              /\ emitCall.dialect = "apache" =>
                    Tags(AddedLines)
                        = SectionTags(ParsedKeys(routers(traefik_config).m[location]))]_vars

\* the prefixes the middlewares of a chain contribute, in chain order
RECURSIVE Contributed(_)
Contributed(chain) ==
    IF chain = <<>> THEN <<>> ELSE Stripped(Head(chain)) \o Contributed(Tail(chain))

\* the places of the addprefix middlewares of a chain: those that give a prefix
Adding(chain) ==
    {i \in DOMAIN chain :
        /\ Attr(chain[i], "addprefix") # PyNone
        /\ Truthy(Attr(Attr(chain[i], "addprefix"), "prefix"))}

\* the add-prefix of the last addprefix middleware of a chain, "/" by default
EffectiveAddPrefix(chain) ==
    IF Adding(chain) = {} THEN "/"
    ELSE Attr(Attr(chain[CHOOSE i \in Adding(chain) : \A j \in Adding(chain) : j <= i],
                   "addprefix"), "prefix").s

\* a rewrite is due
Rewriting(chain) == Contributed(chain) # <<>> \/ EffectiveAddPrefix(chain) # "/"

CompressAndHeaders == {"gzip", "gzip_types", "gzip_min_length", "proxy_set_header", "add_header"}

\* the directives of a location block hold the rewrite of the chain, and no other
NginxRewriteOk(chain, ds) ==
    /\ Cardinality({i \in DOMAIN ds : ds[i].m["directive"].s = "rewrite"})
         = IF Rewriting(chain) THEN 1 ELSE 0
    /\ \A i \in DOMAIN ds : ds[i].m["directive"].s = "rewrite" =>
         /\ \A j \in DOMAIN ds : ds[j].m["directive"].s \in CompressAndHeaders => j < i
         /\ ds[i].m["args"].items[1] = PyStr(JoinWith(Contributed(chain), "|") \o "(.*)")
         /\ ds[i].m["args"].items[2] = PyStr(EffectiveAddPrefix(chain) \o "$1")

CompressAndHeaderLines ==
    {"SetOutputFilter DEFLATE", "AddOutputFilterByType DEFLATE ",
     "RequestHeader append ", "Header append "}

\* the lines between the opening and the closing line of each <Location>
\* section among the lines, without their indentation
SectionBodies(lines) ==
    {[i \in 1..(c - o - 1) |-> Tail(lines[o + i])] :
        <<o, c>> \in {p \in (DOMAIN lines) \X (DOMAIN lines) :
                        /\ p[1] < p[2]
                        /\ IsOpening(lines[p[1]])
                        /\ IsClosing(lines[p[2]])
                        /\ \A k \in (p[1] + 1)..(p[2] - 1) :
                              ~IsOpening(lines[k]) /\ ~IsClosing(lines[k])}}

\* the lines of a <Location> section hold the rewrite of the chain, and no other
ApacheRewriteOk(chain, body) ==
    /\ Cardinality({i \in DOMAIN body : body[i][1] = "RewriteRule "})
         = IF Rewriting(chain) THEN 1 ELSE 0
    /\ \A i \in DOMAIN body : body[i][1] = "RewriteRule " =>
         /\ \A j \in DOMAIN body : body[j][1] \in CompressAndHeaderLines => j < i
         /\ body[i][2] = JoinWith(Contributed(chain), "|") \o "(.*)"
         /\ body[i][4] = EffectiveAddPrefix(chain) \o "$1"

\* C10: for any middleware chain of a route, the directives emitted for it
\* (in every location block of nginx, in every <Location> section of
\* Apache) contain exactly one rewrite when some stripprefix or
\* stripprefixregex middleware contributes a prefix or the effective
\* add-prefix differs from "/", and no rewrite otherwise; the rewrite comes
\* after all compress and header directives, its match is the contributed
\* prefixes (the literal ones regex-escaped) joined by "|" in chain order
\* followed by "(.*)", and its replacement is the add-prefix of the last
\* addprefix middleware of the chain that gives one ("/" by default)
\* followed by "$1".
C10_OneRewrite ==
    [][\A location \in todo \ todo' :
          /\ \A i \in DOMAIN AddedDirectives :
                AddedDirectives[i].m["directive"].s = "location" =>
                    NginxRewriteOk(middles(traefik_config, routers(traefik_config).m[location]),
                                   AddedDirectives[i].m["block"].items)
          /\ \A body \in SectionBodies(AddedLines) :
                ApacheRewriteOk(middles(traefik_config, routers(traefik_config).m[location]),
                                body)]_vars

\* a location block of nginx whose chain strips three prefixes in two
\* middlewares and adds a prefix twice: the rewrite is the last directive,
\* after the gzip and header directives
C10_Witness ==
    \E i \in DOMAIN nginx_target :
        /\ nginx_target[i].m["directive"].s = "location"
        /\ \E j, k, l \in DOMAIN nginx_target[i].m["block"].items :
            /\ j < l /\ k < l
            /\ l = Len(nginx_target[i].m["block"].items)
            /\ nginx_target[i].m["block"].items[j].m["directive"].s = "gzip_types"
            /\ nginx_target[i].m["block"].items[k].m["directive"].s = "add_header"
            /\ nginx_target[i].m["block"].items[l]
                 = Directive("rewrite", <<PyStr("/a|/a\\.b|/v[0-9]+(.*)"), PyStr("/y$1"),
                                          PyStr("break")>>)

\* the tree is valid and has an http section
HasHttp(config) ==
    /\ config \notin {Pending, Idle}
    /\ ~IsErr(config)
    /\ Attr(config, "http") # PyNone

\* no service of the tree is a pool of servers
NoPool(config) ==
    \A name \in Keys(services(config)) :
        \/ Attr(services(config).m[name], "loadbalancer") = PyNone
        \/ ~Truthy(Attr(Attr(services(config).m[name], "loadbalancer"), "servers"))

\* C14 as stated, for the trees whose services are no pools of servers: for
\* every tree that has an http section both emitters finish without
\* raising, also when a router's same-named service yields zero backend
\* URLs or the router has no rule.
C14_EmittersFinish ==
    (HasHttp(traefik_config) /\ NoPool(traefik_config)) => ~IsErr(emitOut)

\* the same-named service of the router yields exactly one backend URL
OneBackend(location) ==
    /\ ~IsErr(get_backend(services(traefik_config).m[location], emitCall.ipaddr))
    /\ Len(get_backend(services(traefik_config).m[location], emitCall.ipaddr).items) = 1

\* C15 as stated, for the routers whose service yields one backend: an
\* alternative of the rule that is neither PathPrefix('...') nor
\* Path('...') is skipped: the emitter does not raise, no location block
\* and no <Location> section is added for it, and the blocks and sections
\* of the other alternatives are added, in order.
C15_UnparsedSkipped ==
    [][\A location \in todo \ todo' :
          (/\ ~AllParse(routers(traefik_config).m[location])
           /\ OneBackend(location)) =>
              /\ ~IsErr(emitOut')
              /\ emitCall.dialect = "nginx" =>
                    LocationArgs(AddedDirectives)
                        = ParsedKeys(routers(traefik_config).m[location])
              /\ emitCall.dialect = "apache" =>
                    Tags(AddedLines)
                        = SectionTags(ParsedKeys(routers(traefik_config).m[location]))]_vars

\* the names of the chain of the router that http.middlewares does not
\* hold, their provider suffix stripped
Unresolved(config, route) ==
    {BeforeAt(Attr(route, "middlewares").items[i].s) :
        i \in {j \in DOMAIN Or(Attr(route, "middlewares"), PyList(<<>>)).items :
                 Get(config, BeforeAt(Attr(route, "middlewares").items[j].s)) = PyNone}}

\* the comment directives among the directives and in the blocks of the
\* location directives among them
Comments(directives) ==
    {directives[i] : i \in {j \in DOMAIN directives : directives[j].m["directive"].s = "#"}}
    \cup UNION {{directives[i].m["block"].items[k] :
                    k \in {l \in DOMAIN directives[i].m["block"].items :
                             directives[i].m["block"].items[l].m["directive"].s = "#"}} :
                i \in {j \in DOMAIN directives : directives[j].m["directive"].s = "location"}}

\* C16 as stated, for the routers whose rule parses and whose service
\* yields one backend: when the router lists a middleware name that is not
\* defined under http.middlewares, emission does not abort, the location
\* blocks hold the directives of the defined middlewares of the chain, in
\* order, and the nginx output carries, at that route, a comment directive
\* for the unresolved name (one more than the comment that sums up the
\* route, which names the router, its keys and its backend).
C16_UnresolvedComment ==
    [][\A location \in todo \ todo' :
          (/\ emitCall.dialect = "nginx"
           /\ Unresolved(traefik_config, routers(traefik_config).m[location]) # {}
           /\ AllParse(routers(traefik_config).m[location])
           /\ OneBackend(location)) =>
              /\ ~IsErr(emitOut')
              /\ \A i \in DOMAIN AddedDirectives :
                    AddedDirectives[i].m["directive"].s = "location" =>
                        SelectSeq(AddedDirectives[i].m["block"].items,
                                  LAMBDA d : d.m["directive"].s \notin {"#", "proxy_pass"})
                            = middleware2nginx(middles(traefik_config,
                                                       routers(traefik_config).m[location]))
              /\ Comments(AddedDirectives)
                    \ {Comment(location,
                               location_keys(routers(traefik_config).m[location]),
                               get_backend(services(traefik_config).m[location],
                                           emitCall.ipaddr))} # {}]_vars

\* name a sorts before name b: the names of the model's routers in ascending
\* order are r1, r2, r3
Position(name) == CHOOSE i \in DOMAIN RouterNames : RouterNames[i] = name
Before(a, b) == Position(a) < Position(b)

\* C21 as stated: each turn of the loop of an emitter takes the least name
\* among the names, common to the routers and the services, that it has not
\* yet processed, so that the output of equal trees is the same.
C21_AscendingOrder ==
    [][todo' # todo =>
          \E location \in todo :
              /\ todo' = todo \ {location}
              /\ \A other \in todo : ~Before(other, location)]_vars

(***************************************************************************)
(* Properties of the streamed archive                                      *)
(***************************************************************************)
\* the chunks one after the other
RECURSIVE Concat(_)
Concat(q) == IF q = <<>> THEN <<>> ELSE Head(q) \o Concat(Tail(q))

\* the archive of the items: the blocks of each member in the order of the
\* items, and the blocks that end the archive
RECURSIVE Members(_)
Members(q) ==
    IF q = <<>> THEN <<>>
    ELSE MemberBlocks(Head(q).name, Head(q).size) \o Members(Tail(q))
WholeArchive(q) == Members(q) \o EndBlocks(Len(Members(q)))

\* C22: after each member the generator yields what the buffer has got
\* since the yield before: the chunks, one after the other, are the archive
\* up to the last member added, and the whole archive with the blocks that
\* end it once the generator has yielded its last chunk; no block is yielded
\* twice, none is left out, and no chunk is empty.  A consumer that stops
\* early has the archive up to the member of its last chunk.
C22_ChunksAreArchive ==
    arcAt # "idle" =>
        /\ arcAt \in {"start", "loop"} =>
            /\ Concat(chunks) = Members(SubSeq(arcItems, 1, arcSeen))
            /\ Len(chunks) = arcSeen
        /\ arcAt \in {"last", "end"} =>
            /\ Concat(chunks) = WholeArchive(arcItems)
            /\ Len(chunks) = arcSeen + 1
        /\ arcAt = "stopped" =>
            \/ /\ Concat(chunks) = Members(SubSeq(arcItems, 1, arcSeen))
               /\ Len(chunks) = arcSeen
            \/ /\ Concat(chunks) = WholeArchive(arcItems)
               /\ Len(chunks) = Len(arcItems) + 1
        /\ Concat(chunks) = ofp.data
        /\ \A i, j \in DOMAIN Concat(chunks) : i # j => Concat(chunks)[i] # Concat(chunks)[j]
        /\ \A i \in DOMAIN chunks : chunks[i] # <<>>

\* the archive of four items, one of them empty and one of more than a
\* block, has been streamed and the generator is suspended at its last
\* yield: five chunks, the third of one block, the last of the blocks that
\* end the archive, of which tf counts two
C22_Witness ==
    /\ arcAt = "last"
    /\ arcOut = Pending
    /\ Len(arcItems) = 4
    /\ arcItems[3].size = 0
    /\ arcItems[2].size = 513
    /\ Len(chunks) = 5
    /\ Len(chunks[2]) = 3
    /\ Len(chunks[3]) = 1
    /\ chunks[5] = EndBlocks(Len(Members(arcItems)))
    /\ tf = Len(Members(arcItems)) + 2
    /\ osk = Len(Members(arcItems))
    /\ Concat(chunks) = WholeArchive(arcItems)

\* traefik2apache has written its lines
ApacheDone == emitCall # Idle /\ emitCall.dialect = "apache" /\ ~IsErr(emitOut) /\ emitOut # Pending

\* the line without the white space it starts with is the closing tag
IsClosingTag(line) ==
    \/ Join(line) = "</VirtualHost>"
    \/ Len(line) = 2 /\ line[1] = Spaces(Len(line[1])) /\ line[2] = "</VirtualHost>"

\* the place of the first closing tag among the lines, 0 when there is none
ClosingLine(base) ==
    IF \E i \in DOMAIN base : IsClosingTag(base[i])
    THEN CHOOSE i \in DOMAIN base :
            IsClosingTag(base[i]) /\ \A j \in 1..(i - 1) : ~IsClosingTag(base[j])
    ELSE 0

\* C24 as stated: the lines written hold the lines of the base configuration
\* unchanged and in their order, and the emitted lines directly before the
\* closing </VirtualHost> line of the base, whatever its indentation, each
\* indented by the indentation of the closing tag.  (The empty line that
\* the code puts before and after the block is left aside.)
C24_BeforeClosingTag ==
    (ApacheDone /\ ClosingLine(Apconf(emitCall)) > 0 /\ apache_res # <<>>) =>
        LET base == Apconf(emitCall)
            at == ClosingLine(base)
            out == apache_insert2vf(base, apache_res)
            block == SelectSeq(SubSeq(out, at, at + Len(out) - Len(base) - 1),
                               LAMBDA line : line # <<>>)
        IN /\ emitOut.items = [i \in DOMAIN out |-> PyStr(Join(out[i]))]
           /\ Len(out) >= Len(base)
           /\ SubSeq(out, 1, at - 1) = SubSeq(base, 1, at - 1)
           /\ SubSeq(out, at + Len(out) - Len(base), Len(out)) = SubSeq(base, at, Len(base))
           /\ Len(block) = Len(apache_res)
           /\ \A i \in DOMAIN block :
                Join(block[i]) = Spaces(Indent(base[at])) \o Join(apache_res[i])

(***************************************************************************)
(* Properties of the backends of a service                                 *)
(***************************************************************************)
\* a URL of a pool of servers without its leading http://
WithoutScheme(url) ==
    CASE url = "http://h1:80" -> "h1:80"
      [] url = "http://h2:80" -> "h2:80"
      [] OTHER -> url

\* the backend URLs the load balancer of a service names: those of its
\* pool, in list order, then the one of its server when that has a port
StatedBackends(service, ipaddr) ==
    LET loadbalancer == Attr(service, "loadbalancer")
        pool == IF loadbalancer = PyNone THEN PyNone ELSE Attr(loadbalancer, "servers")
        server == IF loadbalancer = PyNone THEN PyNone ELSE Attr(loadbalancer, "server")
    IN (IF pool = PyNone THEN <<>>
        ELSE [i \in DOMAIN pool.items |-> PyStr(WithoutScheme(pool.items[i].m["url"].s))])
       \o (IF server # PyNone /\ Truthy(Attr(server, "port"))
           THEN <<PyStr(Str(Attr(server, IF ipaddr THEN "ipaddress" ELSE "host"))
                        \o ":" \o Str(Attr(server, "port")))>>
           ELSE <<>>)

\* C26 as stated: get_backend returns, for the load balancer of a service,
\* the URLs of its servers in list order without the leading http://,
\* followed by at most one entry of its server when the port of the server
\* is set, "<ipaddress>:<port>" with the ipaddr flag and "<host>:<port>"
\* without it; with no load balancer the list is empty.  It is checked at
\* the turn of the loop of an emitter that asks for the backends of the
\* service of a router.
C26_BackendUrls ==
    [][\A location \in todo \ todo' :
          /\ get_backend(services(traefik_config).m[location], emitCall.ipaddr)
               = PyList(StatedBackends(services(traefik_config).m[location],
                                       emitCall.ipaddr))
          /\ emitOut' # Raise("AttributeError")]_vars

\* C25 as stated: in the nginx emitter a route gets an upstream block named
\* after the router, with one server entry for each backend URL in order,
\* iff its service has more than one backend URL, and then every location
\* block of the route has proxy_pass http://<router name>; with exactly one
\* backend URL no upstream block is added and every location block has
\* proxy_pass http://<that backend>.  It is checked at the turn of the loop
\* that visits the router.
C25_UpstreamIffSeveral ==
    [][\A location \in todo \ todo' :
          emitCall.dialect = "nginx" =>
            LET urls == StatedBackends(services(traefik_config).m[location],
                                       emitCall.ipaddr)
                upstreams == SelectSeq(AddedDirectives,
                                       LAMBDA d : d.m["directive"].s = "upstream")
                locations == SelectSeq(AddedDirectives,
                                       LAMBDA d : d.m["directive"].s = "location")
                PassesTo(backend) ==
                    \A i \in DOMAIN locations :
                        /\ locations[i].m["block"].items # <<>>
                        /\ locations[i].m["block"].items[1]
                             = Directive("proxy_pass", <<PyStr("http://" \o backend)>>)
            IN /\ Len(urls) > 1 =>
                    /\ upstreams = <<Upstream(location, PyList(urls))>>
                    /\ PassesTo(location)
               /\ Len(urls) <= 1 => upstreams = <<>>
               /\ Len(urls) = 1 => PassesTo(urls[1].s)]_vars

(***************************************************************************)
(* Properties of the classification of get_diff                            *)
(***************************************************************************)
\* the entry that an iteration of the loop of get_diff visits
Entry == diffCall.diff[diffSeen + 1]
Special == special_modes(diffCall.files[Entry.Path].mode)
LinkTo == diffCall.files[Entry.Path].linkTarget

\* the iteration has put the path of its entry into the one collection
\* named, or into none ("dropped"), and has changed nothing else
GoesTo(where) ==
    /\ deleted' = IF where = "deleted" THEN deleted \cup {Entry.Path} ELSE deleted
    /\ added' = IF where = "added" THEN added \cup {Entry.Path} ELSE added
    /\ modified' = IF where = "modified" THEN modified \cup {Entry.Path} ELSE modified
    /\ link' = IF where = "link" THEN Put(link, Entry.Path, LinkTo) ELSE link
    /\ Cardinality({c \in {deleted', added', modified', DOMAIN link'} : Entry.Path \in c}) <= 1

\* C27 as stated: get_diff classifies each diff entry that matches no ignore
\* pattern into at most one collection: a kind-2 path goes to deleted; a
\* kind-1 path goes to link when its mode has the symlink bit and its link
\* target is not empty, is dropped when its mode has a non-regular bit other
\* than dir, and goes to added otherwise; a kind-0 path is dropped when its
\* mode has any non-regular bit (dir included), goes to link when it is a
\* symlink with a target, and goes to modified otherwise; a path recorded
\* in link is in neither added nor modified.
C27_Classified ==
    [][(diffSeen' = diffSeen + 1 /\ ~is_match(diffCall.ignore, Entry.Path)) =>
          /\ Entry.Kind = 2 => GoesTo("deleted")
          /\ Entry.Kind = 1 =>
                GoesTo(IF "symlink" \in Special /\ LinkTo # "" THEN "link"
                       ELSE IF (nonreg \ {"dir"}) \cap Special # {} THEN "dropped"
                       ELSE "added")
          /\ Entry.Kind = 0 =>
                GoesTo(IF nonreg \cap Special # {} THEN "dropped"
                       ELSE IF "symlink" \in Special /\ LinkTo # "" THEN "link"
                       ELSE "modified")
          /\ DOMAIN link' \cap (added' \cup modified') = {}]_vars

\* C27, with the paths that get_diff skips: a kind-2 path goes to deleted
\* unless an ancestor of it is in deleted already; a kind-1 path is dropped
\* when an ancestor of it is in added already or its mode has a non-regular
\* bit other than dir, else goes to link when its mode has the symlink bit
\* and its link target is not empty, and goes to added otherwise; a kind-0
\* path as stated; each entry goes to at most one collection, and a path
\* recorded in link is in neither added nor modified.
C27_ClassifiedUnlessSkipped ==
    [][(diffSeen' = diffSeen + 1 /\ ~is_match(diffCall.ignore, Entry.Path)) =>
          /\ Entry.Kind = 2 =>
                GoesTo(IF \E p \in deleted : IsParent(p, Entry.Path) THEN "dropped"
                       ELSE "deleted")
          /\ Entry.Kind = 1 =>
                GoesTo(IF \/ \E p \in added : IsParent(p, Entry.Path)
                          \/ (nonreg \ {"dir"}) \cap Special # {} THEN "dropped"
                       ELSE IF "symlink" \in Special /\ LinkTo # "" THEN "link"
                       ELSE "added")
          /\ Entry.Kind = 0 =>
                GoesTo(IF nonreg \cap Special # {} THEN "dropped"
                       ELSE IF "symlink" \in Special /\ LinkTo # "" THEN "link"
                       ELSE "modified")
          /\ DOMAIN link' \cap (added' \cup modified') = {}]_vars

\* get_diff returned for a diff that lists an added directory, an added
\* path below it and an added symlink with a target, none ignored: the
\* directory is in added, the path below it in no collection, the symlink
\* in link only
C27_Witness ==
    /\ DiffDone
    /\ diffCall.ignore = <<>>
    /\ diffCall.diff = <<[Path |-> A, Kind |-> 1], [Path |-> AB, Kind |-> 1],
                         [Path |-> D, Kind |-> 1]>>
    /\ "dir" \in special_modes(diffCall.files[A].mode)
    /\ "symlink" \in special_modes(diffCall.files[D].mode)
    /\ diffOut.added = {A}
    /\ diffOut.modified = {}
    /\ diffOut.deleted = {}
    /\ DOMAIN diffOut.link = {D}

(***************************************************************************)
(* Properties of the snapshot that compose reads                           *)
(***************************************************************************)
\* C28 as stated: the compose operation leaves the container snapshot
\* unchanged: no step of it changes the Config.Labels mapping (or the rest
\* of the attrs) of any container, so that after compose returns every
\* container holds exactly the entries it held before the call.
C28_SnapshotUnchanged == [][attrs' = attrs]_vars

(***************************************************************************)
(* Properties of an inventory with several sidecars                        *)
(***************************************************************************)
\* the places of the proxy sidecars in the inventory: the containers whose
\* first image tag contains "traefik"
Sidecars ==
    {i \in DOMAIN containers :
        containers[i].tags # <<>> /\ HasTraefik(containers[i].tags[1])}
LastSidecar == CHOOSE i \in Sidecars : \A j \in Sidecars : j <= i

\* the label trees of the enabled containers among the first n, merged in
\* inventory order
RECURSIVE Accumulated(_)
Accumulated(n) ==
    IF n = 0 THEN NewConfig("TraefikConfig")
    ELSE IF Enabled(containers[n])
    THEN merge("TraefikConfig", Accumulated(n - 1), ContainerLabels(containers[n]))
    ELSE Accumulated(n - 1)

\* C29 as stated: when the inventory holds more than one proxy sidecar,
\* traefik_dump returns the merge of the args-, env- and file-derived trees
\* of the last sidecar in inventory order and of the accumulated label
\* trees of all enabled containers: the three trees that enter the final
\* merge are exactly those of the last sidecar, and nothing of the args,
\* the environment and the provider files of an earlier sidecar is in the
\* result.
C29_LastSidecarWins ==
    (DumpDone /\ Cardinality(Sidecars) > 1) =>
        /\ ~IsErr(dumpOut)
        /\ ~IsErr(traefik_container_config(containers[LastSidecar]))
        /\ LET last == traefik_container_config(containers[LastSidecar])
           IN /\ from_args = last.items[1]
              /\ from_envs = last.items[2]
              /\ from_conf = last.items[3]
              /\ from_label = Accumulated(Len(containers))
              /\ dumpOut = MergeSources(last.items[1], last.items[2], last.items[3],
                                        Accumulated(Len(containers)))

(***************************************************************************)
(* Properties of the items of get_dockerfile                               *)
(***************************************************************************)
\* the places of the items of a name among the items yielded
Yielded(name) == {i \in DOMAIN items : items[i].name = name}
\* the Dockerfile has the line
HasLine(line) == \E i \in DOMAIN dockerfile : dockerfile[i] = line

\* C30: in the sequence of the items that get_dockerfile yields with output
\* on, .dockerignore is the first item and the Dockerfile is yielded exactly
\* once and last; its lines are those of the item; it has the line
\* ADD added.tar.gz / (ADD modified.tar.gz /) iff an item named added.tar.gz
\* (modified.tar.gz) was yielded before it, also when the ignore patterns
\* leave no member in the archive.
C30_ItemsAndAddLines ==
    (DockerfileDone /\ dockerCall.do_output) =>
        /\ items[1].name = ".dockerignore"
        /\ Yielded("Dockerfile") = {Len(items)}
        /\ items[Len(items)].content = PyStr(JoinWith(dockerfile \o <<"">>, "\n"))
        /\ HasLine("ADD added.tar.gz /") <=> Yielded("added.tar.gz") # {}
        /\ HasLine("ADD modified.tar.gz /") <=> Yielded("modified.tar.gz") # {}
        /\ Cardinality(Yielded("added.tar.gz")) <= 1
        /\ Cardinality(Yielded("modified.tar.gz")) <= 1

\* get_dockerfile returned with output on for a container whose added
\* directory holds one file, which the ignore pattern a/* leaves out of the
\* archive: the item added.tar.gz has no member, and the Dockerfile adds it
C30_Witness ==
    /\ DockerfileDone
    /\ dockerCall.do_output
    /\ diffCall.ignore = <<[path |-> A, glob |-> TRUE, abs |-> FALSE]>>
    /\ diffOut.added = {A}
    /\ download_files(diffCall.files, A) # <<>>
    /\ Len(items) = 3
    /\ items[2] = Item("added.tar.gz", [kind |-> "tar", members |-> <<>>])
    /\ HasLine("ADD added.tar.gz /")

====
